---- MODULE Spec2Model ----
(***************************************************************************)
(* A model of the rending render graph: the graph compiler                 *)
(* (src/src/graph.rs), the recording surface (src/src/commands/mod.rs,     *)
(* src/src/commands/pass.rs), the bind-group cache                         *)
(* (src/src/resources/bindgroup.rs), the resource constraints              *)
(* (src/src/resources/buffer.rs, src/src/resources/texture.rs) and the     *)
(* materializer (RenderGraphCompilation::run).                             *)
(*                                                                         *)
(* Conventions.  Slotmap keys (NodeKey, BufferHandle, TextureHandle,       *)
(* BindGroupHandle, layout and pipeline handles) are the 1-based position  *)
(* of the slot.  Names are small naturals, ordered as the BTreeMap orders  *)
(* the strings.  Option<T> is None (0) for handles and non-zero sizes,     *)
(* "None" for enumerations and <<>> for tuples.  A panic is recorded in    *)
(* the field `fatal` of the recording surface and stops every later        *)
(* operation.                                                              *)
(***************************************************************************)
EXTENDS Integers, Sequences, FiniteSets, TLC

VARIABLES graph, result, comp, cmds, pass, hist, outcome, gpu

vars == <<graph, result, comp, cmds, pass, hist, outcome, gpu>>

None == 0

\* ------------------------------------------------------------------------
\* Bounds of the model
\* ------------------------------------------------------------------------
MaxNodes == 3
MaxEdges == 3

\* ------------------------------------------------------------------------
\* Small helpers
\* ------------------------------------------------------------------------
Max(a, b) == IF a >= b THEN a ELSE b

Min(a, b) == IF a <= b THEN a ELSE b

Put(f, k, v) == [x \in (DOMAIN f) \cup {k} |-> IF x = k THEN v ELSE f[x]]

EmptyMap == [x \in {} |-> None]

Range(s) == {s[i] : i \in DOMAIN s}

\* the elements of a finite set of naturals in increasing order
RECURSIVE SortedSeq(_)
SortedSeq(S) ==
    IF S = {} THEN <<>>
    ELSE LET m == CHOOSE x \in S : \A y \in S : x <= y
         IN <<m>> \o SortedSeq(S \ {m})

\* every sequence without repetition over the elements of S, up to length n
RECURSIVE SeqsNoDup(_, _)
SeqsNoDup(S, n) ==
    IF n = 0 \/ S = {} THEN {<<>>}
    ELSE {<<>>} \cup UNION {{<<x>> \o t : t \in SeqsNoDup(S \ {x}, n - 1)} : x \in S}

\* ------------------------------------------------------------------------
\* NamedSlotMap (src/src/named_slotmap.rs)
\* ------------------------------------------------------------------------
NamedSlotMap_new == [slotmap |-> <<>>, names |-> EmptyMap]

NamedSlotMap_len(m) == Len(m.slotmap)

\* the key handed out by the insert that produced m
NamedSlotMap_last_key(m) == Len(m.slotmap)

NamedSlotMap_insert(m, name, value) ==
    [slotmap |-> Append(m.slotmap, value),
     names   |-> Put(m.names, name, Len(m.slotmap) + 1)]

NamedSlotMap_get(m, key) ==
    IF key \in DOMAIN m.slotmap THEN m.slotmap[key] ELSE None

NamedSlotMap_get_key(m, name) ==
    IF name \in DOMAIN m.names THEN m.names[name] ELSE None

NamedSlotMap_get_name(m, key) ==
    IF \E n \in DOMAIN m.names : m.names[n] = key
    THEN CHOOSE n \in DOMAIN m.names :
            /\ m.names[n] = key
            /\ \A o \in DOMAIN m.names : m.names[o] = key => n <= o
    ELSE None

\* (name, key) pairs in the order of the BTreeMap
NamedSlotMap_iter_names(m) ==
    LET ns == SortedSeq(DOMAIN m.names)
    IN [i \in 1..Len(ns) |-> <<ns[i], m.names[ns[i]]>>]

\* ------------------------------------------------------------------------
\* Bytes to words (src/src/util.rs)
\* ------------------------------------------------------------------------
\* u32::from_le_bytes
u32_from_le_bytes(chunk) ==
    chunk[1] + 256 * chunk[2] + 65536 * chunk[3] + 16777216 * chunk[4]

\* array_from_iter::<_, _, 4>: Some(array) as <<array>> when the iterator
\* yields four items, None as <<>> when it ends before
array_from_iter(items) == IF Len(items) >= 4 THEN << SubSeq(items, 1, 4) >> ELSE <<>>

\* U8ToU32Iterator::next on the bytes left: [item, rest]; item is <<word>>
\* for Some(word) and <<>> for None.  Four next() calls are made on the byte
\* iterator whatever it holds, and the items that were Some go to
\* array_from_iter
U8ToU32Iterator_next(bytes) ==
    LET taken == SubSeq(bytes, 1, Min(4, Len(bytes)))
        rest == SubSeq(bytes, Len(taken) + 1, Len(bytes))
        chunk == array_from_iter(taken)
    IN [item |-> IF chunk = <<>> THEN <<>> ELSE << u32_from_le_bytes(chunk[1]) >>,
        rest |-> rest]

\* ------------------------------------------------------------------------
\* Bitset (src/src/bitset.rs): len and the set of indices whose bit is 1
\* ------------------------------------------------------------------------
WordBits == 64

Bitset_compute_word_len(len) == (len \div WordBits) + (IF len % WordBits # 0 THEN 1 ELSE 0)

Bitset_new(len) == [len |-> len, bits |-> {}]

Bitset_word_len(b) == Bitset_compute_word_len(b.len)

Bitset_resize(b, len) == IF len <= b.len THEN b ELSE [b EXCEPT !.len = len]

\* Some(bool) is the boolean, None is "None"
Bitset_contains(b, index) == IF index >= b.len THEN "None" ELSE index \in b.bits

Bitset_insert(b, index) ==
    LET r == IF index >= b.len THEN Bitset_resize(b, index + 1) ELSE b
    IN [r EXCEPT !.bits = @ \cup {index}]

Bitset_inverted(b) ==
    [b EXCEPT !.bits = (0..(Bitset_word_len(b) * WordBits - 1)) \ @]

\* the indices the iterator yields: it stops at the first index >= len
Bitset_iter(b) == SortedSeq({i \in b.bits : i < b.len})

Bitset_intersects_with(a, b) ==
    LET words == Min(Bitset_word_len(a), Bitset_word_len(b))
    IN \E i \in a.bits \cap b.bits : i \div WordBits < words

\* union_with(other): [panic, set]; the loop runs over the words of self and
\* indexes the words of other with the same i, which is out of bounds when
\* other has fewer words
Bitset_union_with(self, other) ==
    LET r == IF self.len < other.len THEN Bitset_resize(self, other.len) ELSE self
    IN IF Bitset_word_len(r) > Bitset_word_len(other)
       THEN [panic |-> TRUE, set |-> r]
       ELSE [panic |-> FALSE, set |-> [r EXCEPT !.bits = @ \cup other.bits]]

\* ------------------------------------------------------------------------
\* Buffer constraints (src/src/resources/buffer.rs)
\* ------------------------------------------------------------------------
BufferConstraints_default == [min_size |-> 0, min_usages |-> {}]

\* a set_size that takes the size of the last request
BufferConstraints_set_size_assigning(c, size) == [c EXCEPT !.min_size = size]

BufferConstraints_set_size(c, size) == [c EXCEPT !.min_size = Max(@, size)]

BufferConstraints_set_usages(c, usage) == [c EXCEPT !.min_usages = @ \cup usage]

BufferConstraints_set_uniform(c) == [c EXCEPT !.min_usages = @ \cup {"UNIFORM"}]

BufferConstraints_set_storage(c) == [c EXCEPT !.min_usages = @ \cup {"STORAGE"}]

NoError == [kind |-> "None"]

\* Option<BufferError>; buf is the retained wgpu buffer (size, usage)
BufferConstraints_verify_retained(c, buf, name) ==
    IF buf.size < c.min_size
    THEN [kind |-> "TooSmall", name |-> name, actual |-> buf.size, min |-> c.min_size]
    ELSE IF ~(c.min_usages \subseteq buf.usage)
    THEN [kind |-> "MissingUsages", name |-> name, missing |-> c.min_usages \ buf.usage]
    ELSE NoError

\* BufferUse::matches_use; a use is "Uniform", "Storage(READ)", "Storage(WRITE)",
\* "Storage(READWRITE)" or "Infer"
IsStorageUse(u) == u \in {"Storage(READ)", "Storage(WRITE)", "Storage(READWRITE)"}

\* a matches_use that compares only the kinds, not the access modes
BufferUse_matches_use_any_mode(self, usage) ==
    IF self = "Uniform" /\ usage = "Uniform" THEN TRUE
    ELSE IF IsStorageUse(self) /\ IsStorageUse(usage) THEN TRUE
    ELSE IF self = "Infer" THEN TRUE
    ELSE FALSE

BufferUse_matches_use(self, usage) ==
    IF self = "Uniform" /\ usage = "Uniform" THEN TRUE
    ELSE IF IsStorageUse(self) /\ IsStorageUse(usage) /\ self = usage THEN TRUE
    ELSE IF IsStorageUse(self) /\ IsStorageUse(usage) THEN FALSE
    ELSE IF self = "Infer" THEN TRUE
    ELSE FALSE

\* ------------------------------------------------------------------------
\* Texture constraints (src/src/resources/texture.rs)
\* ------------------------------------------------------------------------
NoSize == [dim |-> "None", x |-> 0, y |-> 0, z |-> 0]

TextureSize(dim, x, y, z) == [dim |-> dim, x |-> x, y |-> y, z |-> z]

Unconstrained == [tag |-> "Unconstrained", a |-> "None", b |-> "None"]

Constrained(t) == [tag |-> "Constrained", a |-> t, b |-> "None"]

Conflicted(l, r) == [tag |-> "Conflicted", a |-> l, b |-> r]

TextureConstraints_default ==
    [size |-> NoSize,
     min_size |-> <<1, 1, 1>>,
     format |-> "None",
     has_depth |-> FALSE,
     has_stencil |-> FALSE,
     min_mip_level_count |-> 1,
     min_sample_count |-> 1,
     min_usages |-> {},
     multisampled |-> FALSE,
     sample_type |-> Unconstrained]

TextureConstraints_set_min_size(c, size) ==
    [c EXCEPT !.min_size = <<Max(@[1], size[1]), Max(@[2], size[2]), Max(@[3], size[3])>>]

\* set_format panics (assert_eq) when a different format is already set
TextureConstraints_set_format_panics(c, format) == c.format # "None" /\ c.format # format

TextureConstraints_set_format(c, format) ==
    IF c.format # "None" THEN c ELSE [c EXCEPT !.format = format]

TextureConstraints_set_mip_count(c, count) ==
    [c EXCEPT !.min_mip_level_count = Max(@, count)]

TextureConstraints_set_multisampled(c) == [c EXCEPT !.multisampled = TRUE]

TextureConstraints_set_texture_binding(c) ==
    [c EXCEPT !.min_usages = @ \cup {"TEXTURE_BINDING"}]

TextureConstraints_set_storage_binding(c) ==
    [c EXCEPT !.min_usages = @ \cup {"STORAGE_BINDING"}]

TextureConstraints_set_copy_dst(c) == [c EXCEPT !.min_usages = @ \cup {"COPY_DST"}]

\* a set_sample_type that starts over from a conflict
TextureConstraints_set_sample_type_clobbering(c, ty) ==
    IF c.sample_type.tag \in {"Unconstrained", "Conflicted"}
    THEN [c EXCEPT !.sample_type = Constrained(ty)]
    ELSE LET old_ty == c.sample_type.a IN
         IF old_ty = "Float(false)" /\ ty \in {"Float(true)", "Depth"}
         THEN [c EXCEPT !.sample_type = Constrained(ty)]
         ELSE IF \/ old_ty = ty
                 \/ (old_ty = "Float(true)" /\ ty = "Float(false)")
                 \/ (old_ty = "Depth" /\ ty = "Float(false)")
         THEN c
         ELSE [c EXCEPT !.sample_type = Conflicted(old_ty, ty)]

\* a set_sample_type that lets Depth replace any float type
TextureConstraints_set_sample_type_depth_over_float(c, ty) ==
    IF c.sample_type.tag = "Unconstrained" THEN [c EXCEPT !.sample_type = Constrained(ty)]
    ELSE IF c.sample_type.tag = "Conflicted" THEN c
    ELSE LET old_ty == c.sample_type.a IN
         IF \/ (old_ty = "Float(false)" /\ ty \in {"Float(true)", "Depth"})
            \/ (old_ty = "Float(true)" /\ ty = "Depth")
         THEN [c EXCEPT !.sample_type = Constrained(ty)]
         ELSE IF \/ old_ty = ty
                 \/ (old_ty = "Float(true)" /\ ty = "Float(false)")
                 \/ (old_ty = "Depth" /\ ty = "Float(false)")
         THEN c
         ELSE [c EXCEPT !.sample_type = Conflicted(old_ty, ty)]

\* sample types: "Float(true)", "Float(false)", "Depth", "Uint", "Sint"
TextureConstraints_set_sample_type(c, ty) ==
    IF c.sample_type.tag = "Unconstrained" THEN [c EXCEPT !.sample_type = Constrained(ty)]
    ELSE IF c.sample_type.tag = "Conflicted" THEN c
    ELSE LET old_ty == c.sample_type.a IN
         IF old_ty = "Float(false)" /\ ty \in {"Float(true)", "Depth"}
         THEN [c EXCEPT !.sample_type = Constrained(ty)]
         ELSE IF \/ (old_ty = "Float(true)" /\ ty \in {"Float(true)", "Float(false)"})
                 \/ (old_ty = "Float(false)" /\ ty = "Float(false)")
                 \/ (old_ty = "Depth" /\ ty = "Depth")
                 \/ (old_ty = "Depth" /\ ty = "Float(false)")
                 \/ (old_ty = "Sint" /\ ty = "Sint")
                 \/ (old_ty = "Uint" /\ ty = "Uint")
         THEN c
         ELSE [c EXCEPT !.sample_type = Conflicted(old_ty, ty)]

\* what wgpu's TextureFormat::describe() says of the formats the model uses
FormatInfo(format) ==
    CASE format = "Rgba8Unorm" ->
            [storage |-> TRUE, render |-> TRUE, samples |-> {1, 2, 4, 8},
             sample_type |-> "Float(true)", depth |-> FALSE, stencil |-> FALSE]
      [] format = "R32Float" ->
            [storage |-> TRUE, render |-> TRUE, samples |-> {1, 4},
             sample_type |-> "Float(false)", depth |-> FALSE, stencil |-> FALSE]
      [] format = "Depth24PlusStencil8" ->
            [storage |-> FALSE, render |-> TRUE, samples |-> {1, 4},
             sample_type |-> "Depth", depth |-> TRUE, stencil |-> TRUE]
      [] OTHER ->
            [storage |-> FALSE, render |-> FALSE, samples |-> {1},
             sample_type |-> "Uint", depth |-> FALSE, stencil |-> FALSE]

SizeExtent(size) ==
    CASE size.dim = "D1" -> <<size.x, 1, 1>>
      [] size.dim = "D2" -> <<size.x, size.y, 1>>
      [] OTHER -> <<size.x, size.y, size.z>>

\* a verify that lets a texture without declared size or format through
TextureConstraints_verify_undeclared(c, name) ==
    IF c.size = NoSize \/ c.format = "None" THEN NoError
    ELSE IF \E i \in 1..3 : SizeExtent(c.size)[i] < c.min_size[i]
    THEN [kind |-> "SizeLessThanMinSize", name |-> name]
    ELSE LET info == FormatInfo(c.format) IN
         IF "STORAGE_BINDING" \in c.min_usages /\ ~info.storage
         THEN [kind |-> "FormatNotStorageCompatible", name |-> name]
         ELSE IF ~(c.min_sample_count \in ({1, 2, 4, 8} \cap info.samples))
         THEN [kind |-> "FormatNotMultisampleCompatible", name |-> name]
         ELSE IF c.has_depth /\ ~info.depth
         THEN [kind |-> "FormatNotDepth", name |-> name]
         ELSE IF c.sample_type.tag = "Conflicted"
         THEN [kind |-> "ConflictingTextureSampleTypes", name |-> name]
         ELSE IF c.has_stencil /\ ~info.stencil
         THEN [kind |-> "FormatNotStencil", name |-> name]
         ELSE NoError

\* Option<TextureError> of a texture's accumulated constraints
TextureConstraints_verify(c, name) ==
    IF c.size = NoSize THEN [kind |-> "UnconstrainedTextureSize", name |-> name]
    ELSE IF \E i \in 1..3 : SizeExtent(c.size)[i] < c.min_size[i]
    THEN [kind |-> "SizeLessThanMinSize", name |-> name]
    ELSE IF c.format = "None" THEN [kind |-> "UnconstrainedTextureFormat", name |-> name]
    ELSE LET info == FormatInfo(c.format) IN
         IF "STORAGE_BINDING" \in c.min_usages /\ ~info.storage
         THEN [kind |-> "FormatNotStorageCompatible", name |-> name]
         ELSE IF "RENDER_ATTACHMENT" \in c.min_usages /\ ~info.render
         THEN [kind |-> "FormatNotRenderCompatible", name |-> name]
         ELSE IF ~(c.min_sample_count \in ({1, 2, 4, 8} \cap info.samples))
         THEN [kind |-> "FormatNotMultisampleCompatible", name |-> name]
         ELSE IF c.has_depth /\ ~info.depth
         THEN [kind |-> "FormatNotDepth", name |-> name]
         ELSE IF c.sample_type.tag = "Conflicted"
         THEN [kind |-> "ConflictingTextureSampleTypes", name |-> name]
         ELSE IF /\ c.sample_type.tag = "Constrained"
                 /\ ~(\/ (info.sample_type = "Depth" /\ c.sample_type.a \in {"Depth", "Float(false)"})
                      \/ (info.sample_type = "Float(true)"
                            /\ c.sample_type.a \in {"Float(true)", "Float(false)"})
                      \/ (info.sample_type = "Float(false)" /\ c.sample_type.a = "Float(false)")
                      \/ (info.sample_type = "Sint" /\ c.sample_type.a = "Sint")
                      \/ (info.sample_type = "Uint" /\ c.sample_type.a = "Uint"))
         THEN [kind |-> "FormatNotSampleTypeCompatible", name |-> name]
         ELSE IF c.has_stencil /\ ~info.stencil
         THEN [kind |-> "FormatNotStencil", name |-> name]
         ELSE NoError

\* a verify_retained that does not look at the usages of the texture
TextureConstraints_verify_retained_any_usage(c, tex, name) ==
    IF c.size = NoSize \/ c.format = "None" THEN [kind |-> "panic", name |-> name]
    ELSE IF tex.size # c.size THEN [kind |-> "SizeMismatch", name |-> name]
    ELSE IF tex.format # c.format THEN [kind |-> "FormatMismatch", name |-> name]
    ELSE IF tex.mip_level_count < c.min_mip_level_count
    THEN [kind |-> "InsufficientMipLevels", name |-> name]
    ELSE IF tex.sample_count < c.min_sample_count
    THEN [kind |-> "InsufficientSamples", name |-> name]
    ELSE NoError

\* Option<TextureError> of a retained texture; unwrapping an undeclared size or
\* format panics
TextureConstraints_verify_retained(c, tex, name) ==
    IF c.size = NoSize \/ c.format = "None" THEN [kind |-> "panic", name |-> name]
    ELSE IF tex.size # c.size THEN [kind |-> "SizeMismatch", name |-> name]
    ELSE IF tex.format # c.format THEN [kind |-> "FormatMismatch", name |-> name]
    ELSE IF ~(c.min_usages \subseteq tex.usage) THEN [kind |-> "MissingUsages", name |-> name]
    ELSE IF tex.mip_level_count < c.min_mip_level_count
    THEN [kind |-> "InsufficientMipLevels", name |-> name]
    ELSE IF tex.sample_count < c.min_sample_count
    THEN [kind |-> "InsufficientSamples", name |-> name]
    ELSE NoError

\* ------------------------------------------------------------------------
\* Resource bindings (src/src/resources/bindgroup.rs, buffer.rs, texture.rs)
\* ------------------------------------------------------------------------
\* ResourceBinding::Buffer { handle, offset, size, usage }
BufferBinding(handle, offset, size, usage) ==
    [kind |-> "Buffer", handle |-> handle, offset |-> offset, size |-> size, usage |-> usage]

\* ResourceBinding::Texture { handle, dimension, aspect, base_mip, mip_count,
\* base_layer, layer_count }
TextureBinding(handle, dimension, aspect, base_mip, mip_count, base_layer, layer_count) ==
    [kind |-> "Texture", handle |-> handle, dimension |-> dimension, aspect |-> aspect,
     base_mip |-> base_mip, mip_count |-> mip_count,
     base_layer |-> base_layer, layer_count |-> layer_count]

\* TextureView::create: the dimension starts as None
TextureView_create(handle, aspect, base_mip, mip_count, base_layer, layer_count) ==
    TextureBinding(handle, "None", aspect, base_mip, mip_count, base_layer, layer_count)

\* ------------------------------------------------------------------------
\* Bind-group cache (src/src/resources/bindgroup.rs)
\* ------------------------------------------------------------------------
BindGroupCache_new == [groups |-> <<>>, reverse |-> EmptyMap]

\* the handle get_handle returns for (layout, resources) on cache c
BindGroupCache_handle_of(c, layout, resources) ==
    IF resources \in DOMAIN c.reverse THEN c.reverse[resources] ELSE Len(c.groups) + 1

\* the cache after get_handle(layout, resources)
BindGroupCache_get_handle(c, layout, resources) ==
    IF resources \in DOMAIN c.reverse THEN c
    ELSE [groups  |-> Append(c.groups, [layout |-> layout, bindings |-> resources]),
          reverse |-> Put(c.reverse, resources, Len(c.groups) + 1)]

BindGroupCache_get_group(c, handle) ==
    IF handle \in DOMAIN c.groups THEN c.groups[handle] ELSE None

\* ------------------------------------------------------------------------
\* The pipeline store handed to compile (src/src/resources/pipeline.rs,
\* src/src/resources/layout.rs): bind-group layout entries by position
\* ------------------------------------------------------------------------
MAX_BIND_GROUPS == 8

BufferEntry(buffer_ty, read_only, min_binding_size) ==
    [ty |-> "Buffer", buffer_ty |-> buffer_ty, read_only |-> read_only,
     min_binding_size |-> min_binding_size, sample_type |-> "None",
     view_dimension |-> "None", multisampled |-> FALSE, access |-> "None", format |-> "None"]

TextureEntry(sample_type, view_dimension, multisampled) ==
    [ty |-> "Texture", buffer_ty |-> "None", read_only |-> FALSE,
     min_binding_size |-> None, sample_type |-> sample_type,
     view_dimension |-> view_dimension, multisampled |-> multisampled,
     access |-> "None", format |-> "None"]

StorageTextureEntry(access, format, view_dimension) ==
    [ty |-> "StorageTexture", buffer_ty |-> "None", read_only |-> FALSE,
     min_binding_size |-> None, sample_type |-> "None",
     view_dimension |-> view_dimension, multisampled |-> FALSE,
     access |-> access, format |-> format]

SamplerEntry ==
    [ty |-> "Sampler", buffer_ty |-> "None", read_only |-> FALSE,
     min_binding_size |-> None, sample_type |-> "None",
     view_dimension |-> "None", multisampled |-> FALSE, access |-> "None", format |-> "None"]

\* PipelineStorage: two bind-group layouts, three pipeline layouts and one
\* compute pipeline per pipeline layout.  Layout 1 has one entry of every
\* binding type, at slots 0..5.
PipelineStorage ==
    [bind_group_layouts |->
        << [entries |-> << BufferEntry("Uniform", FALSE, 2),
                           BufferEntry("Storage", TRUE, None),
                           BufferEntry("Storage", FALSE, 2),
                           TextureEntry("Float(false)", "D2", FALSE),
                           StorageTextureEntry("WriteOnly", "Rgba8Unorm", "D3"),
                           SamplerEntry >>],
           [entries |-> << BufferEntry("Storage", FALSE, None),
                           BufferEntry("Uniform", FALSE, None),
                           BufferEntry("Storage", TRUE, 1),
                           TextureEntry("Depth", "D2Array", TRUE),
                           StorageTextureEntry("ReadWrite", "R32Float", "D2"),
                           StorageTextureEntry("ReadOnly", "Rgba8Unorm", "D1") >>] >>,
     pipeline_layouts |-> << [groups |-> <<1>>], [groups |-> <<2>>], [groups |-> <<1, 2>>] >>,
     compute_pipelines |-> << [layout |-> 1], [layout |-> 2], [layout |-> 3] >>]

\* ------------------------------------------------------------------------
\* The recording surface, RenderCommands (src/src/commands/mod.rs)
\* ------------------------------------------------------------------------
NodeResourceAccess_new == [reads |-> Bitset_new(0), writes |-> Bitset_new(0)]

ResourceConstraints_default == [buffers |-> EmptyMap, textures |-> EmptyMap]

\* the RenderCommands compile builds for a graph of n nodes
RenderCommands_new(n) ==
    [queue |-> <<>>,
     bind_cache |-> BindGroupCache_new,
     constraints |-> ResourceConstraints_default,
     node_index |-> 0,
     resources |-> <<>>,
     resource_accesses |-> [i \in 1..n |-> NodeResourceAccess_new],
     virtual_buffers |-> NamedSlotMap_new,
     virtual_textures |-> NamedSlotMap_new,
     fatal |-> "none"]

Ok(rc) == rc.fatal = "none"

Fatal(rc, msg) == IF Ok(rc) THEN [rc EXCEPT !.fatal = msg] ELSE rc

RenderCommands_enqueue(rc, c) == [rc EXCEPT !.queue = Append(@, c)]

\* entry(handle).or_default() of the buffer constraint table
RenderCommands_get_buffer_constraints(rc, handle) ==
    IF handle \in DOMAIN rc.constraints.buffers
    THEN rc.constraints.buffers[handle] ELSE BufferConstraints_default

RenderCommands_get_texture_constraints(rc, handle) ==
    IF handle \in DOMAIN rc.constraints.textures
    THEN rc.constraints.textures[handle] ELSE TextureConstraints_default

SetBufferConstraints(rc, handle, c) ==
    [rc EXCEPT !.constraints.buffers = Put(@, handle, c)]

SetTextureConstraints(rc, handle, c) ==
    [rc EXCEPT !.constraints.textures = Put(@, handle, c)]

\* the virtual-resource map of a resource kind ("Buffer" or "Texture")
VirtualMap(rc, kind) == IF kind = "Buffer" THEN rc.virtual_buffers ELSE rc.virtual_textures

RenderCommands_mark_resource_read(rc, kind, handle) ==
    IF ~Ok(rc) THEN rc
    ELSE IF handle \notin DOMAIN VirtualMap(rc, kind).slotmap
    THEN Fatal(rc, "unwrap on a handle that is no virtual resource")
    ELSE LET index == VirtualMap(rc, kind).slotmap[handle] IN
         [rc EXCEPT !.resource_accesses[rc.node_index + 1].reads = Bitset_insert(@, index)]

RenderCommands_mark_resource_write(rc, kind, handle) ==
    IF ~Ok(rc) THEN rc
    ELSE IF handle \notin DOMAIN VirtualMap(rc, kind).slotmap
    THEN Fatal(rc, "unwrap on a handle that is no virtual resource")
    ELSE LET index == VirtualMap(rc, kind).slotmap[handle] IN
         [rc EXCEPT !.resource_accesses[rc.node_index + 1].writes = Bitset_insert(@, index)]

\* a buffer(name) that allocates a handle on every call
RenderCommands_buffer_always_new(rc, name) ==
    IF ~Ok(rc) THEN rc
    ELSE LET index == Len(rc.resources)
             vb == NamedSlotMap_insert(rc.virtual_buffers, name, index)
         IN [rc EXCEPT !.virtual_buffers = vb,
                       !.resources = Append(@, [name |-> name, kind |-> "Buffer",
                                                handle |-> NamedSlotMap_last_key(vb)])]

\* buffer(name): the surface after the call
RenderCommands_buffer(rc, name) ==
    IF ~Ok(rc) \/ NamedSlotMap_get_key(rc.virtual_buffers, name) # None THEN rc
    ELSE LET index == Len(rc.resources)
             vb == NamedSlotMap_insert(rc.virtual_buffers, name, index)
         IN [rc EXCEPT !.virtual_buffers = vb,
                       !.resources = Append(@, [name |-> name, kind |-> "Buffer",
                                                handle |-> NamedSlotMap_last_key(vb)])]

RenderCommands_buffer_handle(rc, name) ==
    NamedSlotMap_get_key(RenderCommands_buffer(rc, name).virtual_buffers, name)

RenderCommands_texture(rc, name) ==
    IF ~Ok(rc) \/ NamedSlotMap_get_key(rc.virtual_textures, name) # None THEN rc
    ELSE LET index == Len(rc.resources)
             vt == NamedSlotMap_insert(rc.virtual_textures, name, index)
         IN [rc EXCEPT !.virtual_textures = vt,
                       !.resources = Append(@, [name |-> name, kind |-> "Texture",
                                                handle |-> NamedSlotMap_last_key(vt)])]

RenderCommands_texture_handle(rc, name) ==
    NamedSlotMap_get_key(RenderCommands_texture(rc, name).virtual_textures, name)

\* texture_constraints(texture).has_size(size)
TextureConstraints_has_size(rc, texture, size) ==
    IF ~Ok(rc) THEN rc
    ELSE LET c == RenderCommands_get_texture_constraints(rc, texture)
             rc1 == SetTextureConstraints(rc, texture, c)
         IN IF c.size # NoSize
            THEN (IF c.size = size THEN rc1
                  ELSE Fatal(rc1, "texture constrained to two sizes"))
            ELSE SetTextureConstraints(rc, texture, [c EXCEPT !.size = size])

\* a has_format that takes the format of the last declaration
TextureConstraints_has_format_overwriting(rc, texture, format) ==
    IF ~Ok(rc) THEN rc
    ELSE SetTextureConstraints(rc, texture,
            [RenderCommands_get_texture_constraints(rc, texture) EXCEPT !.format = format])

\* texture_constraints(texture).has_format(format)
TextureConstraints_has_format(rc, texture, format) ==
    IF ~Ok(rc) THEN rc
    ELSE LET c == RenderCommands_get_texture_constraints(rc, texture)
             rc1 == SetTextureConstraints(rc, texture, c)
         IN IF c.format # "None"
            THEN (IF c.format = format THEN rc1
                  ELSE Fatal(rc1, "texture constrained to two formats"))
            ELSE SetTextureConstraints(rc, texture, [c EXCEPT !.format = format])

\* write_buffer(buffer, offset, bytes), bytes given by its length
RenderCommands_write_buffer(rc, buffer, offset, len) ==
    IF ~Ok(rc) THEN rc
    ELSE LET c0 == RenderCommands_get_buffer_constraints(rc, buffer)
             c1 == BufferConstraints_set_usages(
                        BufferConstraints_set_size(c0, offset + len), {"COPY_DST"})
             rc1 == RenderCommands_mark_resource_write(
                        SetBufferConstraints(rc, buffer, c1), "Buffer", buffer)
         IN IF ~Ok(rc1) THEN rc1
            ELSE RenderCommands_enqueue(rc1,
                    [kind |-> "WriteBuffer", handle |-> buffer, offset |-> offset, len |-> len])

\* write_texture(texture_view, data, layout, size); texture_view is
\* [handle, mip_level, origin, aspect], size the Extent3d <<w, h, d>>
RenderCommands_write_texture(rc, view, len, size) ==
    IF ~Ok(rc) THEN rc
    ELSE LET c0 == RenderCommands_get_texture_constraints(rc, view.handle)
             c1 == TextureConstraints_set_copy_dst(c0)
             c2 == TextureConstraints_set_min_size(c1,
                        <<view.origin[1] + size[1], view.origin[2] + size[2],
                          view.origin[3] + size[3]>>)
             c3 == TextureConstraints_set_mip_count(c2, view.mip_level)
             c4 == IF view.aspect = "StencilOnly" THEN [c3 EXCEPT !.has_stencil = TRUE]
                   ELSE IF view.aspect = "DepthOnly" THEN [c3 EXCEPT !.has_depth = TRUE]
                   ELSE c3
         IN RenderCommands_enqueue(SetTextureConstraints(rc, view.handle, c4),
                [kind |-> "WriteTexture", view |-> view, len |-> len, extent |-> size])

\* a copy_buffer_to_buffer that marks the source as written as well
RenderCommands_copy_buffer_to_buffer_marks_src(rc, src, src_offset, dst, dst_offset, size) ==
    IF ~Ok(rc) THEN rc
    ELSE LET s1 == BufferConstraints_set_usages(
                        BufferConstraints_set_size(
                            RenderCommands_get_buffer_constraints(rc, src), src_offset + size),
                        {"COPY_SRC"})
             rc1 == SetBufferConstraints(rc, src, s1)
             d1 == BufferConstraints_set_usages(
                        BufferConstraints_set_size(
                            RenderCommands_get_buffer_constraints(rc1, dst), dst_offset + size),
                        {"COPY_DST"})
             rc2 == SetBufferConstraints(rc1, dst, d1)
             rc3 == RenderCommands_mark_resource_write(
                        RenderCommands_mark_resource_write(
                            RenderCommands_mark_resource_read(rc2, "Buffer", src),
                            "Buffer", src),
                        "Buffer", dst)
         IN RenderCommands_enqueue(rc3,
                [kind |-> "CopyBufferToBuffer", src |-> src, src_offset |-> src_offset,
                 dst |-> dst, dst_offset |-> dst_offset, size |-> size])

\* copy_buffer_to_buffer(src, src_offset, dst, dst_offset, size)
RenderCommands_copy_buffer_to_buffer(rc, src, src_offset, dst, dst_offset, size) ==
    IF ~Ok(rc) THEN rc
    ELSE LET s1 == BufferConstraints_set_usages(
                        BufferConstraints_set_size(
                            RenderCommands_get_buffer_constraints(rc, src), src_offset + size),
                        {"COPY_SRC"})
             rc1 == SetBufferConstraints(rc, src, s1)
             d1 == BufferConstraints_set_usages(
                        BufferConstraints_set_size(
                            RenderCommands_get_buffer_constraints(rc1, dst), dst_offset + size),
                        {"COPY_DST"})
             rc2 == SetBufferConstraints(rc1, dst, d1)
             rc3 == RenderCommands_mark_resource_write(
                        RenderCommands_mark_resource_read(rc2, "Buffer", src), "Buffer", dst)
         IN IF ~Ok(rc3) THEN rc3
            ELSE RenderCommands_enqueue(rc3,
                    [kind |-> "CopyBufferToBuffer", src |-> src, src_offset |-> src_offset,
                     dst |-> dst, dst_offset |-> dst_offset, size |-> size])

\* ------------------------------------------------------------------------
\* The compute-pass recorder, ComputePassCommands (src/src/commands/pass.rs)
\* ------------------------------------------------------------------------
NoBindings == [some |-> FALSE, list |-> <<>>]

NoPass == [open |-> FALSE, command_index |-> 0, pipeline |-> None,
           bindings |-> [i \in 0..(MAX_BIND_GROUPS - 1) |-> NoBindings]]

\* compute_pass(label): the surface with the ComputePass command appended
RenderCommands_compute_pass(rc, label) ==
    IF ~Ok(rc) THEN rc
    ELSE RenderCommands_enqueue(rc, [kind |-> "ComputePass", label |-> label, commands |-> <<>>])

\* the ComputePassCommands that compute_pass returns on surface rc
ComputePassCommands_new(rc) ==
    [NoPass EXCEPT !.open = TRUE, !.command_index = Len(rc.queue) + 1]

ComputePassCommands_enqueue(rc, ps, c) ==
    [rc EXCEPT !.queue[ps.command_index].commands = Append(@, c)]

\* pipeline(handle)
ComputePassCommands_pipeline(rc, ps, pipeline) ==
    [rc |-> IF Ok(rc)
            THEN ComputePassCommands_enqueue(rc, ps, [kind |-> "SetPipeline", handle |-> pipeline])
            ELSE rc,
     ps |-> IF Ok(rc) THEN [ps EXCEPT !.pipeline = pipeline] ELSE ps]

\* a bind_group that emits its BindGroup entry when it is called
ComputePassCommands_bind_group_emits(rc, ps, index, bind_group) ==
    IF ~Ok(rc) THEN [rc |-> rc, ps |-> ps]
    ELSE [rc |-> ComputePassCommands_enqueue(rc, ps,
                    [kind |-> "BindGroup", index |-> index, handle |-> None]),
          ps |-> [ps EXCEPT !.bindings[index] = [some |-> TRUE, list |-> bind_group]]]

\* bind_group(index, bind_group): an index past the array panics
ComputePassCommands_bind_group(rc, ps, index, bind_group) ==
    IF ~Ok(rc) THEN [rc |-> rc, ps |-> ps]
    ELSE IF index >= MAX_BIND_GROUPS
    THEN [rc |-> Fatal(rc, "bind group index out of bounds"), ps |-> ps]
    ELSE [rc |-> rc,
          ps |-> [ps EXCEPT !.bindings[index] = [some |-> TRUE, list |-> bind_group]]]

\* a buffer arm that sizes the buffer by the binding alone, without its offset
DispatchBuffer_without_offset(rc, resource, entry) ==
    LET handle == resource.handle
        c0 == RenderCommands_get_buffer_constraints(rc, handle)
        binding_size == resource.size
        min_binding_size == entry.min_binding_size
        min_size == IF binding_size # None THEN binding_size
                    ELSE IF min_binding_size # None THEN min_binding_size
                    ELSE 0
        rc0 == SetBufferConstraints(rc, handle, c0)
        c1 == BufferConstraints_set_size(c0, min_size)
        rc1 == SetBufferConstraints(rc, handle, c1)
    IN IF binding_size # None /\ min_binding_size # None /\ ~(binding_size >= min_binding_size)
       THEN Fatal(rc0, "attempted to bind fewer bytes than the minimum binding size")
       ELSE IF entry.buffer_ty = "Uniform"
       THEN IF ~BufferUse_matches_use(resource.usage, "Uniform")
            THEN Fatal(rc1, "buffer bound to uniform slot must be passed as a uniform")
            ELSE RenderCommands_mark_resource_read(
                    SetBufferConstraints(rc, handle, BufferConstraints_set_uniform(c1)),
                    "Buffer", handle)
       ELSE IF ~BufferUse_matches_use(resource.usage,
                    IF entry.read_only THEN "Storage(READ)" ELSE "Storage(READWRITE)")
            THEN Fatal(rc1, "buffer bound to storage slot must be passed as a storage")
            ELSE LET rc2 == RenderCommands_mark_resource_read(
                                SetBufferConstraints(rc, handle,
                                    BufferConstraints_set_storage(c1)),
                                "Buffer", handle)
                 IN IF ~entry.read_only
                    THEN RenderCommands_mark_resource_write(rc2, "Buffer", handle)
                    ELSE rc2

\* the body of dispatch's match for a buffer binding on a buffer entry
DispatchBuffer(rc, resource, entry) ==
    LET handle == resource.handle
        c0 == RenderCommands_get_buffer_constraints(rc, handle)
        binding_size == resource.size
        min_binding_size == entry.min_binding_size
        min_size == IF binding_size # None THEN binding_size + resource.offset
                    ELSE IF min_binding_size # None THEN min_binding_size + resource.offset
                    ELSE 0
        rc0 == SetBufferConstraints(rc, handle, c0)
        c1 == BufferConstraints_set_size(c0, min_size)
        rc1 == SetBufferConstraints(rc, handle, c1)
    IN IF binding_size # None /\ min_binding_size # None /\ ~(binding_size >= min_binding_size)
       THEN Fatal(rc0, "attempted to bind fewer bytes than the minimum binding size")
       ELSE IF entry.buffer_ty = "Uniform"
       THEN IF ~BufferUse_matches_use(resource.usage, "Uniform")
            THEN Fatal(rc1, "buffer bound to uniform slot must be passed as a uniform")
            ELSE RenderCommands_mark_resource_read(
                    SetBufferConstraints(rc, handle, BufferConstraints_set_uniform(c1)),
                    "Buffer", handle)
       ELSE IF ~BufferUse_matches_use(resource.usage,
                    IF entry.read_only THEN "Storage(READ)" ELSE "Storage(READWRITE)")
            THEN Fatal(rc1, "buffer bound to storage slot must be passed as a storage")
            ELSE LET rc2 == RenderCommands_mark_resource_read(
                                SetBufferConstraints(rc, handle,
                                    BufferConstraints_set_storage(c1)),
                                "Buffer", handle)
                 IN IF ~entry.read_only
                    THEN RenderCommands_mark_resource_write(rc2, "Buffer", handle)
                    ELSE rc2

\* the constraint updates the two texture arms of the match share
DispatchTextureCommon(c0, resource) ==
    LET min_mips == IF resource.mip_count # None
                    THEN resource.base_mip + resource.mip_count ELSE resource.base_mip
        c1 == TextureConstraints_set_mip_count(c0, min_mips)
        c2 == TextureConstraints_set_min_size(c1,
                    <<0, 0, resource.base_layer + resource.layer_count>>)
    IN IF resource.aspect = "StencilOnly" THEN [c2 EXCEPT !.has_stencil = TRUE]
       ELSE IF resource.aspect = "DepthOnly" THEN [c2 EXCEPT !.has_depth = TRUE]
       ELSE c2

\* a texture binding on a Texture entry
DispatchTexture(rc, resource, entry) ==
    LET handle == resource.handle
        c0 == RenderCommands_get_texture_constraints(rc, handle)
        c3 == TextureConstraints_set_sample_type(DispatchTextureCommon(c0, resource),
                                                 entry.sample_type)
        c4 == IF entry.multisampled THEN TextureConstraints_set_multisampled(c3) ELSE c3
        c5 == TextureConstraints_set_texture_binding(c4)
    IN RenderCommands_mark_resource_read(SetTextureConstraints(rc, handle, c5),
                                         "Texture", handle)

\* a texture binding on a StorageTexture entry
DispatchStorageTexture(rc, resource, entry) ==
    LET handle == resource.handle
        c0 == RenderCommands_get_texture_constraints(rc, handle)
        c3 == DispatchTextureCommon(c0, resource)
        c4 == TextureConstraints_set_storage_binding(
                    TextureConstraints_set_format(c3, entry.format))
        rc1 == SetTextureConstraints(rc, handle, c4)
    IN IF TextureConstraints_set_format_panics(c3, entry.format)
       THEN Fatal(SetTextureConstraints(rc, handle, c3), "conflicting texture formats detected")
       ELSE IF entry.access = "WriteOnly"
       THEN RenderCommands_mark_resource_write(rc1, "Texture", handle)
       ELSE IF entry.access = "ReadOnly"
       THEN RenderCommands_mark_resource_read(rc1, "Texture", handle)
       ELSE RenderCommands_mark_resource_write(
                RenderCommands_mark_resource_read(rc1, "Texture", handle), "Texture", handle)

\* the view dimension dispatch writes into the binding held by the pass
DispatchDimension(resource, entry) ==
    IF resource.kind = "Texture" /\ entry.ty \in {"Texture", "StorageTexture"}
    THEN [resource EXCEPT !.dimension = entry.view_dimension]
    ELSE resource

\* one (binding, resource) pair of a group against the group's layout:
\* [rc, resource] after the match
DispatchBinding(rc, binding, resource, group_layout) ==
    IF binding >= Len(group_layout.entries)
    THEN [rc |-> Fatal(rc, "index out of bounds in the layout entries"), resource |-> resource]
    ELSE LET entry == group_layout.entries[binding + 1] IN
         IF resource.kind = "Buffer" /\ entry.ty = "Buffer"
         THEN [rc |-> DispatchBuffer(rc, resource, entry), resource |-> resource]
         ELSE IF resource.kind = "Texture" /\ entry.ty = "Texture"
         THEN [rc |-> DispatchTexture(rc, resource, entry),
               resource |-> DispatchDimension(resource, entry)]
         ELSE IF resource.kind = "Texture" /\ entry.ty = "StorageTexture"
         THEN [rc |-> DispatchStorageTexture(rc, resource, entry),
               resource |-> DispatchDimension(resource, entry)]
         ELSE [rc |-> Fatal(rc, "Uh oh! binding does not match the slot type"),
               resource |-> resource]

\* the inner loop of dispatch over the bindings of one group, from position i
RECURSIVE DispatchBindings(_, _, _, _)
DispatchBindings(rc, list, group_layout, i) ==
    IF ~Ok(rc) \/ i > Len(list) THEN [rc |-> rc, list |-> list]
    ELSE LET Rest(r) ==
                DispatchBindings(r.rc, [list EXCEPT ![i] = <<list[i][1], r.resource>>],
                                 group_layout, i + 1)
         IN Rest(DispatchBinding(rc, list[i][1], list[i][2], group_layout))

\* the outer loop of dispatch over the groups of the pipeline layout
RECURSIVE DispatchGroups(_, _, _, _)
DispatchGroups(rc, ps, layout, group_index) ==
    IF ~Ok(rc) \/ group_index >= Min(MAX_BIND_GROUPS, Len(layout.groups))
    THEN [rc |-> rc, ps |-> ps]
    ELSE IF ~ps.bindings[group_index].some
    THEN [rc |-> Fatal(rc, "not enough groups bound for pipeline"), ps |-> ps]
    ELSE LET group_layout == layout.groups[group_index + 1]
             binding == ps.bindings[group_index].list
             handle == BindGroupCache_handle_of(rc.bind_cache, group_layout, binding)
             rc1 == [rc EXCEPT !.bind_cache =
                        BindGroupCache_get_handle(@, group_layout, binding)]
             Rest(r, ps1) ==
                IF ~Ok(r.rc) THEN [rc |-> r.rc, ps |-> ps1]
                ELSE DispatchGroups(
                        ComputePassCommands_enqueue(r.rc, ps,
                            [kind |-> "BindGroup", index |-> group_index, handle |-> handle]),
                        ps1, layout, group_index + 1)
             Validated(r) ==
                Rest(r, [ps EXCEPT !.bindings[group_index].list = r.list])
         IN Validated(DispatchBindings(rc1, binding,
                        PipelineStorage.bind_group_layouts[group_layout], 1))

\* a dispatch that records its Dispatch command when no pipeline is selected
ComputePassCommands_dispatch_unchecked(rc, ps, x, y, z) ==
    IF ~Ok(rc) THEN [rc |-> rc, ps |-> ps]
    ELSE IF ps.pipeline = None
    THEN [rc |-> ComputePassCommands_enqueue(rc, ps,
                    [kind |-> "Dispatch", x |-> x, y |-> y, z |-> z]),
          ps |-> ps]
    ELSE IF ps.pipeline \notin DOMAIN PipelineStorage.compute_pipelines
    THEN [rc |-> Fatal(rc, "unwrap on a pipeline handle that is not in the store"), ps |-> ps]
    ELSE LET compute_pipeline == PipelineStorage.compute_pipelines[ps.pipeline]
             layout == PipelineStorage.pipeline_layouts[compute_pipeline.layout]
             Finish(r) ==
                IF ~Ok(r.rc) THEN r
                ELSE [rc |-> ComputePassCommands_enqueue(r.rc, r.ps,
                                [kind |-> "Dispatch", x |-> x, y |-> y, z |-> z]),
                      ps |-> r.ps]
         IN Finish(DispatchGroups(rc, ps, layout, 0))

\* dispatch(x, y, z)
ComputePassCommands_dispatch(rc, ps, x, y, z) ==
    IF ~Ok(rc) THEN [rc |-> rc, ps |-> ps]
    ELSE IF ps.pipeline = None
    THEN [rc |-> Fatal(rc, "attempted to dispatch without a pipeline set"), ps |-> ps]
    ELSE IF ps.pipeline \notin DOMAIN PipelineStorage.compute_pipelines
    THEN [rc |-> Fatal(rc, "unwrap on a pipeline handle that is not in the store"), ps |-> ps]
    ELSE LET compute_pipeline == PipelineStorage.compute_pipelines[ps.pipeline]
             layout == PipelineStorage.pipeline_layouts[compute_pipeline.layout]
             Finish(r) ==
                IF ~Ok(r.rc) THEN r
                ELSE [rc |-> ComputePassCommands_enqueue(r.rc, r.ps,
                                [kind |-> "Dispatch", x |-> x, y |-> y, z |-> z]),
                      ps |-> r.ps]
         IN Finish(DispatchGroups(rc, ps, layout, 0))

\* ------------------------------------------------------------------------
\* Node functions.  A node's run_fn is a closure over the recording surface;
\* the model draws it from NodeFns, each a list of the calls the closure
\* makes, resources given by the name the closure passes to buffer(name) or
\* texture(name).
\* ------------------------------------------------------------------------
CopyView(handle, mip_level, origin, aspect) ==
    [handle |-> handle, mip_level |-> mip_level, origin |-> origin, aspect |-> aspect]

NodeFns ==
    << <<>>,
       << [op |-> "write_buffer", name |-> 1, offset |-> 1, len |-> 2] >>,
       << [op |-> "copy_buffer_to_buffer", src |-> 1, src_offset |-> 0,
           dst |-> 2, dst_offset |-> 1, size |-> 1] >>,
       << [op |-> "has_size", name |-> 1, size |-> TextureSize("D2", 2, 2, 0)],
          [op |-> "has_format", name |-> 1, format |-> "Rgba8Unorm"],
          [op |-> "write_texture", name |-> 1, mip_level |-> 0, origin |-> <<0, 0, 0>>,
           aspect |-> "All", len |-> 4, extent |-> <<2, 2, 1>>] >>,
       << [op |-> "dispatch", pipeline |-> 1,
           bind_group |-> << <<2, BufferBinding(1, 2, None, "Storage(READWRITE)")>> >>] >>,
       << [op |-> "dispatch", pipeline |-> 1,
           bind_group |-> << <<0, BufferBinding(1, 0, 2, "Uniform")>> >>] >>,
       << [op |-> "dispatch", pipeline |-> 1,
           bind_group |-> << <<3, TextureView_create(1, "All", 0, None, 0, None)>> >>] >>,
       << [op |-> "has_size", name |-> 1, size |-> TextureSize("D2", 2, 2, 0)],
          [op |-> "dispatch", pipeline |-> 1,
           bind_group |-> << <<4, TextureView_create(1, "All", 0, None, 0, None)>> >>] >>,
       << [op |-> "buffer", name |-> 1] >>,
       << [op |-> "has_size", name |-> 1, size |-> TextureSize("D2", 2, 2, 0)],
          [op |-> "has_format", name |-> 1, format |-> "Rgba8Unorm"],
          [op |-> "write_texture", name |-> 1, mip_level |-> 2, origin |-> <<0, 0, 0>>,
           aspect |-> "All", len |-> 4, extent |-> <<1, 1, 1>>] >>,
       << [op |-> "has_size", name |-> 1, size |-> TextureSize("D2", 2, 2, 0)],
          [op |-> "has_format", name |-> 1, format |-> "Depth24PlusStencil8"],
          [op |-> "dispatch", pipeline |-> 2,
           bind_group |-> << <<3, TextureView_create(1, "All", 0, None, 0, None)>> >>] >> >>

\* the binding a closure builds from the handle that buffer(name) or
\* texture(name) returned: the names of the template replaced by the handles
ResolveBinding(rc, b) ==
    IF b.kind = "Buffer"
    THEN [b EXCEPT !.handle = NamedSlotMap_get_key(rc.virtual_buffers, b.handle)]
    ELSE [b EXCEPT !.handle = NamedSlotMap_get_key(rc.virtual_textures, b.handle)]

RECURSIVE DeclareBindings(_, _, _)
DeclareBindings(rc, list, i) ==
    IF i > Len(list) THEN rc
    ELSE DeclareBindings(
            IF list[i][2].kind = "Buffer" THEN RenderCommands_buffer(rc, list[i][2].handle)
            ELSE RenderCommands_texture(rc, list[i][2].handle),
            list, i + 1)

\* one call of a closure
RunCall(rc, c) ==
    CASE c.op = "buffer" -> RenderCommands_buffer(rc, c.name)
      [] c.op = "texture" -> RenderCommands_texture(rc, c.name)
      [] c.op = "has_size" ->
            LET rc1 == RenderCommands_texture(rc, c.name)
            IN TextureConstraints_has_size(rc1,
                    NamedSlotMap_get_key(rc1.virtual_textures, c.name), c.size)
      [] c.op = "has_format" ->
            LET rc1 == RenderCommands_texture(rc, c.name)
            IN TextureConstraints_has_format(rc1,
                    NamedSlotMap_get_key(rc1.virtual_textures, c.name), c.format)
      [] c.op = "write_buffer" ->
            LET rc1 == RenderCommands_buffer(rc, c.name)
            IN RenderCommands_write_buffer(rc1,
                    NamedSlotMap_get_key(rc1.virtual_buffers, c.name), c.offset, c.len)
      [] c.op = "copy_buffer_to_buffer" ->
            LET rc1 == RenderCommands_buffer(RenderCommands_buffer(rc, c.src), c.dst)
            IN RenderCommands_copy_buffer_to_buffer(rc1,
                    NamedSlotMap_get_key(rc1.virtual_buffers, c.src), c.src_offset,
                    NamedSlotMap_get_key(rc1.virtual_buffers, c.dst), c.dst_offset, c.size)
      [] c.op = "write_texture" ->
            LET rc1 == RenderCommands_texture(rc, c.name)
            IN RenderCommands_write_texture(rc1,
                    CopyView(NamedSlotMap_get_key(rc1.virtual_textures, c.name),
                             c.mip_level, c.origin, c.aspect),
                    c.len, c.extent)
      [] c.op = "dispatch" ->
            LET rc1 == DeclareBindings(rc, c.bind_group, 1)
                list == [i \in 1..Len(c.bind_group) |->
                            <<c.bind_group[i][1], ResolveBinding(rc1, c.bind_group[i][2])>>]
                ps0 == ComputePassCommands_new(rc1)
                r1 == ComputePassCommands_pipeline(
                            RenderCommands_compute_pass(rc1, "None"), ps0, c.pipeline)
                r2 == ComputePassCommands_bind_group(r1.rc, r1.ps, 0, list)
            IN ComputePassCommands_dispatch(r2.rc, r2.ps, 1, 1, 1).rc
      [] OTHER -> rc

RECURSIVE RunFn(_, _, _)
RunFn(rc, fn, i) ==
    IF i > Len(fn) THEN rc ELSE RunFn(RunCall(rc, fn[i]), fn, i + 1)

\* ------------------------------------------------------------------------
\* The graph compiler (src/src/graph.rs)
\* ------------------------------------------------------------------------
RenderGraph_new == NamedSlotMap_new

\* RenderNodeMeta: before and after are hash sets, held here in the order
\* their iterator yields them
RenderNodeMeta(name, before, after, run_fn) ==
    [name |-> name, before |-> before, after |-> after, run_fn |-> run_fn]

RenderGraph_add(g, meta) == NamedSlotMap_insert(g, meta.name, meta)

\* the keys that the names of a list resolve to (filter_map over get_key)
RECURSIVE FilterKeys(_, _, _)
FilterKeys(g, names, i) ==
    IF i > Len(names) THEN <<>>
    ELSE LET k == NamedSlotMap_get_key(g, names[i])
         IN (IF k = None THEN <<>> ELSE <<k>>) \o FilterKeys(g, names, i + 1)

RECURSIVE PushTo(_, _, _, _)
PushTo(deps, dependents, key, i) ==
    IF i > Len(dependents) THEN deps
    ELSE PushTo([deps EXCEPT ![dependents[i]] = Append(@, key)], dependents, key, i + 1)

\* Phase A: the dependency lists, keys visited in slot order from `key` on
RECURSIVE Dependencies(_, _, _)
Dependencies(g, deps, key) ==
    IF key > Len(g.slotmap) THEN deps
    ELSE LET node == g.slotmap[key]
             d1 == PushTo(deps, FilterKeys(g, node.before, 1), key, 1)
             d2 == [d1 EXCEPT ![key] = @ \o FilterKeys(g, node.after, 1)]
         IN Dependencies(g, d2, key + 1)

\* a for loop that reports a cycle at every dependency already visited
RECURSIVE TopoExtend_any_visited(_, _, _, _, _)
TopoExtend_any_visited(st, deps, key, next, i) ==
    IF st.cycle # <<>> \/ i > Len(deps[next]) THEN st
    ELSE LET dependency == deps[next][i] IN
         IF dependency \in st.visited
         THEN [st EXCEPT !.cycle = <<key, next>>]
         ELSE TopoExtend_any_visited([st EXCEPT !.stack = Append(@, dependency),
                                                !.visited = @ \cup {dependency}],
                                     deps, key, next, i + 1)

\* Phase B, the for loop over the dependencies of `next`
RECURSIVE TopoExtend(_, _, _, _, _)
TopoExtend(st, deps, key, next, i) ==
    IF st.cycle # <<>> \/ i > Len(deps[next]) THEN st
    ELSE LET dependency == deps[next][i] IN
         IF dependency \in st.visited
         THEN IF dependency = key THEN [st EXCEPT !.cycle = <<key, next>>]
              ELSE TopoExtend(st, deps, key, next, i + 1)
         ELSE TopoExtend([st EXCEPT !.stack = Append(@, dependency),
                                    !.visited = @ \cup {dependency}],
                         deps, key, next, i + 1)

\* Phase B, the while loop over the stack (pointer is 1-based here)
RECURSIVE TopoWalk(_, _, _, _)
TopoWalk(st, deps, key, pointer) ==
    IF st.cycle # <<>> \/ pointer > Len(st.stack) THEN st
    ELSE TopoWalk(TopoExtend(st, deps, key, st.stack[pointer], 1), deps, key, pointer + 1)

Reverse(s) == [i \in 1..Len(s) |-> s[Len(s) + 1 - i]]

\* Phase B, the loop over the roots
RECURSIVE TopoSort(_, _, _, _)
TopoSort(st, deps, key, n) ==
    IF st.cycle # <<>> \/ key > n THEN st
    ELSE IF key \in st.visited THEN TopoSort(st, deps, key + 1, n)
    ELSE LET w == TopoWalk([st EXCEPT !.stack = <<key>>, !.visited = @ \cup {key}],
                           deps, key, 1)
         IN IF w.cycle # <<>> THEN w
            ELSE TopoSort([w EXCEPT !.nodes = @ \o Reverse(w.stack), !.stack = <<>>],
                          deps, key + 1, n)

\* a recording pass that runs the nodes in the order they were added
RECURSIVE RunNodes_as_added(_, _, _, _)
RunNodes_as_added(rc, g, nodes, i) ==
    IF i > Len(nodes) THEN rc
    ELSE RunNodes_as_added(
            RunFn([rc EXCEPT !.node_index = i - 1], NodeFns[g.slotmap[i].run_fn], 1),
            g, nodes, i + 1)

\* a recording pass that leaves node_index at 0
RECURSIVE RunNodes_fixed_index(_, _, _, _)
RunNodes_fixed_index(rc, g, nodes, i) ==
    IF i > Len(nodes) THEN rc
    ELSE RunNodes_fixed_index(RunFn(rc, NodeFns[g.slotmap[nodes[i]].run_fn], 1),
                              g, nodes, i + 1)

\* Phase C: every node's run_fn, in execution order
RECURSIVE RunNodes(_, _, _, _)
RunNodes(rc, g, nodes, i) ==
    IF i > Len(nodes) THEN rc
    ELSE RunNodes(RunFn([rc EXCEPT !.node_index = i - 1], NodeFns[g.slotmap[nodes[i]].run_fn], 1),
                  g, nodes, i + 1)

\* nodes_indices: the 0-based position of a key in the execution order
NodeIndex(nodes, key) == (CHOOSE i \in 1..Len(nodes) : nodes[i] = key) - 1

\* Phase D: the ancestor bitset of one position
RECURSIVE AllDependenciesWalk(_, _, _, _)
AllDependenciesWalk(bitset, stack, deps, nodes) ==
    IF stack = <<>> THEN bitset
    ELSE LET next == stack[Len(stack)]
             rest == SubSeq(stack, 1, Len(stack) - 1)
         IN IF Bitset_contains(bitset, next) = TRUE
            THEN AllDependenciesWalk(bitset, rest, deps, nodes)
            ELSE AllDependenciesWalk(
                    Bitset_insert(bitset, next),
                    rest \o [j \in 1..Len(deps[nodes[next + 1]]) |->
                                NodeIndex(nodes, deps[nodes[next + 1]][j])],
                    deps, nodes)

\* ancestor bitsets that hold a position and its direct dependencies only
all_dependencies_direct(deps, nodes) ==
    [i \in 1..Len(nodes) |->
        [len |-> Len(nodes),
         bits |-> {i - 1} \cup {NodeIndex(nodes, deps[nodes[i]][j]) :
                                    j \in 1..Len(deps[nodes[i]])}]]

all_dependencies(deps, nodes) ==
    [i \in 1..Len(nodes) |->
        AllDependenciesWalk(Bitset_new(Len(nodes)), <<i - 1>>, deps, nodes)]

do_nodes_conflict(cmd, left, right) ==
    LET l == cmd.resource_accesses[left + 1]
        r == cmd.resource_accesses[right + 1]
    IN \/ Bitset_intersects_with(l.reads, r.writes)
       \/ Bitset_intersects_with(r.reads, l.writes)
       \/ Bitset_intersects_with(l.writes, r.writes)

\* Phase D: the ambiguity list, index_a ascending and index_b ascending within it
RECURSIVE AmbiguitiesOf(_, _, _, _, _, _)
AmbiguitiesOf(g, cmd, all, nodes, index_a, bs) ==
    IF bs = <<>> THEN <<>>
    ELSE LET index_b == Head(bs) IN
         (IF /\ Bitset_contains(all[index_b + 1], index_a) = FALSE
             /\ do_nodes_conflict(cmd, index_a, index_b)
          THEN << <<NamedSlotMap_get_name(g, nodes[index_a + 1]),
                    NamedSlotMap_get_name(g, nodes[index_b + 1])>> >>
          ELSE <<>>)
         \o AmbiguitiesOf(g, cmd, all, nodes, index_a, Tail(bs))

RECURSIVE Ambiguities(_, _, _, _, _)
Ambiguities(g, cmd, all, nodes, index_a) ==
    IF index_a >= Len(nodes) THEN <<>>
    ELSE AmbiguitiesOf(g, cmd, all, nodes, index_a,
                       Bitset_iter(Bitset_inverted(all[index_a + 1])))
         \o Ambiguities(g, cmd, all, nodes, index_a + 1)

\* Phase E: the first error of the virtual textures, in name order; a texture
\* without an entry in the constraint table is an unwrap on None
RECURSIVE VerifyTextures(_, _, _)
VerifyTextures(cmd, names, i) ==
    IF i > Len(names) THEN NoError
    ELSE LET name == names[i][1]
             texture == names[i][2]
         IN IF texture \notin DOMAIN cmd.constraints.textures
            THEN [kind |-> "panic", name |-> name]
            ELSE LET err == TextureConstraints_verify(cmd.constraints.textures[texture], name)
                 IN IF err # NoError THEN err ELSE VerifyTextures(cmd, names, i + 1)

NoResult ==
    [status |-> "none", order |-> <<>>, cycle |-> <<>>, ambiguities |-> <<>>,
     error |-> NoError]

NoCompilation ==
    [valid |-> FALSE, queue |-> <<>>, bind_cache |-> BindGroupCache_new,
     constraints |-> ResourceConstraints_default,
     virtual_buffers |-> NamedSlotMap_new, virtual_textures |-> NamedSlotMap_new]

RenderGraphCompilation(cmd) ==
    [valid |-> TRUE, queue |-> cmd.queue, bind_cache |-> cmd.bind_cache,
     constraints |-> cmd.constraints,
     virtual_buffers |-> cmd.virtual_buffers, virtual_textures |-> cmd.virtual_textures]

\* the phases of compile after the topological sort, on the surface the
\* nodes recorded into: [result, comp]
CompileTail(g, cmd, deps, nodes) ==
    LET amb == Ambiguities(g, cmd, all_dependencies(deps, nodes), nodes, 0)
        err == VerifyTextures(cmd, NamedSlotMap_iter_names(cmd.virtual_textures), 1)
        res == [NoResult EXCEPT !.order = nodes]
    IN IF ~Ok(cmd)
       THEN [result |-> [res EXCEPT !.status = "panic"], comp |-> NoCompilation]
       ELSE IF amb # <<>>
       THEN [result |-> [res EXCEPT !.status = "WriteOrderAmbiguity", !.ambiguities = amb],
             comp |-> NoCompilation]
       ELSE IF err.kind = "panic"
       THEN [result |-> [res EXCEPT !.status = "panic"], comp |-> NoCompilation]
       ELSE IF err # NoError
       THEN [result |-> [res EXCEPT !.status = "Texture", !.error = err],
             comp |-> NoCompilation]
       ELSE [result |-> [res EXCEPT !.status = "Ok"], comp |-> RenderGraphCompilation(cmd)]

\* compile(pipelines, None): [result, comp]
RenderGraph_compile(g) ==
    LET n == Len(g.slotmap)
        deps == Dependencies(g, [k \in 1..n |-> <<>>], 1)
        topo == TopoSort([nodes |-> <<>>, stack |-> <<>>, visited |-> {}, cycle |-> <<>>],
                         deps, 1, n)
    IN IF topo.cycle # <<>>
       THEN [result |-> [NoResult EXCEPT
                            !.status = "CycleDetected",
                            !.cycle = <<NamedSlotMap_get_name(g, topo.cycle[1]),
                                        NamedSlotMap_get_name(g, topo.cycle[2])>>],
             comp |-> NoCompilation]
       ELSE CompileTail(g, RunNodes(RenderCommands_new(n), g, topo.nodes, 1),
                        deps, topo.nodes)

\* ------------------------------------------------------------------------
\* RenderGraphCompilation::run (src/src/graph.rs).  The calls made on the
\* device, the queue and the encoder are logged in order.  RenderResources is
\* [buffers, textures], maps from names to the retained resources.
\* ------------------------------------------------------------------------
RunState(status, error, log, bound) ==
    [status |-> status, error |-> error, gpu |-> log, bound_buffers |-> bound]

\* the buffer binding phase, from the i-th name on; bound is the bindings
\* collected so far
RECURSIVE BindBuffers(_, _, _, _, _, _)
BindBuffers(c, res, names, i, log, bound) ==
    IF i > Len(names) THEN RunState("Ok", NoError, log, bound)
    ELSE LET name == names[i][1]
             handle == names[i][2]
         IN IF handle \notin DOMAIN c.constraints.buffers
            THEN RunState("panic", NoError, log, bound)
            ELSE LET constraints == c.constraints.buffers[handle] IN
                 IF name \in DOMAIN res.buffers
                 THEN LET err == BufferConstraints_verify_retained(
                                        constraints, res.buffers[name], name)
                      IN IF err # NoError THEN RunState("Buffer", err, log, bound)
                         ELSE BindBuffers(c, res, names, i + 1, log,
                                          Put(bound, handle, "Retained"))
                 ELSE BindBuffers(c, res, names, i + 1,
                        Append(log, [call |-> "create_buffer", handle |-> handle,
                                     size |-> constraints.min_size,
                                     usage |-> constraints.min_usages,
                                     mapped_at_creation |-> FALSE]),
                        Put(bound, handle, "Transient"))

\* the texture binding phase, from the i-th name on
RECURSIVE BindTextures(_, _, _, _, _, _)
BindTextures(c, res, names, i, log, bound) ==
    IF i > Len(names) THEN RunState("Ok", NoError, log, bound)
    ELSE LET name == names[i][1]
             handle == names[i][2]
         IN IF handle \notin DOMAIN c.constraints.textures
            THEN RunState("panic", NoError, log, bound)
            ELSE LET constraints == c.constraints.textures[handle] IN
                 IF name \in DOMAIN res.textures
                 THEN LET err == TextureConstraints_verify_retained(
                                        constraints, res.textures[name], name)
                      IN IF err.kind = "panic" THEN RunState("panic", NoError, log, bound)
                         ELSE IF err # NoError THEN RunState("Texture", err, log, bound)
                         ELSE BindTextures(c, res, names, i + 1, log, bound)
                 ELSE IF constraints.size = NoSize
                 THEN RunState("Texture",
                               [kind |-> "UnconstrainedTextureSize", name |-> name], log, bound)
                 ELSE IF constraints.format = "None"
                 THEN RunState("Texture",
                               [kind |-> "UnconstrainedTextureFormat", name |-> name], log, bound)
                 ELSE BindTextures(c, res, names, i + 1,
                        Append(log, [call |-> "create_texture", handle |-> handle,
                                     extent |-> SizeExtent(constraints.size),
                                     format |-> constraints.format,
                                     usage |-> constraints.min_usages,
                                     mip_level_count |-> constraints.min_mip_level_count,
                                     sample_count |-> constraints.min_sample_count]),
                        bound)

\* create_groups, the views of one group's texture bindings
RECURSIVE CreateViews(_, _)
CreateViews(bindings, i) ==
    IF i > Len(bindings) THEN <<>>
    ELSE (IF bindings[i][2].kind = "Texture"
          THEN << [call |-> "create_view", handle |-> bindings[i][2].handle,
                   dimension |-> bindings[i][2].dimension] >>
          ELSE <<>>)
         \o CreateViews(bindings, i + 1)

\* BindGroupCache::create_groups: one bind group per cache entry
RECURSIVE BindGroupCache_create_groups(_, _)
BindGroupCache_create_groups(cache, h) ==
    IF h > Len(cache.groups) THEN <<>>
    ELSE CreateViews(cache.groups[h].bindings, 1)
         \o << [call |-> "create_bind_group", group |-> h,
                layout |-> cache.groups[h].layout] >>
         \o BindGroupCache_create_groups(cache, h + 1)

ReplayPass(commands) ==
    [i \in 1..Len(commands) |->
        CASE commands[i].kind = "SetPipeline" ->
                [call |-> "set_pipeline", pipeline |-> commands[i].handle]
          [] commands[i].kind = "BindGroup" ->
                [call |-> "set_bind_group", index |-> commands[i].index,
                 group |-> commands[i].handle]
          [] OTHER -> [call |-> "dispatch_workgroups", x |-> commands[i].x,
                       y |-> commands[i].y, z |-> commands[i].z]]

\* the replay of the command queue, from the i-th command on
RECURSIVE Replay(_, _)
Replay(queue, i) ==
    IF i > Len(queue) THEN <<>>
    ELSE LET command == queue[i] IN
         (CASE command.kind = "WriteBuffer" ->
                << [call |-> "write_buffer", handle |-> command.handle,
                    offset |-> command.offset, len |-> command.len] >>
            [] command.kind = "WriteTexture" ->
                << [call |-> "write_texture", handle |-> command.view.handle,
                    mip_level |-> command.view.mip_level, len |-> command.len] >>
            [] command.kind = "ComputePass" ->
                << [call |-> "begin_compute_pass"] >> \o ReplayPass(command.commands)
            [] OTHER ->
                << [call |-> "copy_buffer_to_buffer", src |-> command.src,
                    dst |-> command.dst, size |-> command.size] >>)
         \o Replay(queue, i + 1)

QueueCalls == {"write_buffer", "write_texture", "submit"}

EncoderCalls ==
    {"begin_compute_pass", "set_pipeline", "set_bind_group", "dispatch_workgroups",
     "copy_buffer_to_buffer", "finish"}

\* a run that replays the command queue before it binds the textures
RenderGraphCompilation_run_replay_early(c, res) ==
    LET b == BindBuffers(c, res, NamedSlotMap_iter_names(c.virtual_buffers), 1,
                         <<>>, EmptyMap)
        t == BindTextures(c, res, NamedSlotMap_iter_names(c.virtual_textures), 1,
                          b.gpu \o << [call |-> "create_command_encoder"] >>
                                \o Replay(c.queue, 1),
                          b.bound_buffers)
    IN IF b.status # "Ok" THEN b
       ELSE IF t.status # "Ok" THEN t
       ELSE RunState("Ok", NoError,
                t.gpu \o BindGroupCache_create_groups(c.bind_cache, 1)
                      \o << [call |-> "finish"], [call |-> "submit"] >>,
                t.bound_buffers)

\* run(ctx, res): the result, the calls made in order, the buffers bound
RenderGraphCompilation_run(c, res) ==
    LET b == BindBuffers(c, res, NamedSlotMap_iter_names(c.virtual_buffers), 1,
                         <<>>, EmptyMap)
        t == BindTextures(c, res, NamedSlotMap_iter_names(c.virtual_textures), 1,
                          b.gpu, b.bound_buffers)
    IN IF b.status # "Ok" THEN b
       ELSE IF t.status # "Ok" THEN t
       ELSE RunState("Ok", NoError,
                t.gpu \o BindGroupCache_create_groups(c.bind_cache, 1)
                      \o << [call |-> "create_command_encoder"] >>
                      \o Replay(c.queue, 1)
                      \o << [call |-> "finish"], [call |-> "submit"] >>,
                t.bound_buffers)

\* clear() of the recycled structures: the structure emptied, its allocation
\* kept (the allocation is not part of the model)
Vec_clear(v) == <<>>

BindGroupCache_clear(c) == BindGroupCache_new

ResourceConstraints_clear(c) == ResourceConstraints_default

NamedSlotMap_clear(m) == NamedSlotMap_new

\* a recycling that takes the queue of the artifacts as it is
RecycledCommands_keeping_queue(n, artifacts) ==
    [RenderCommands_new(n) EXCEPT
        !.queue = artifacts.queue,
        !.bind_cache = BindGroupCache_clear(artifacts.bind_cache),
        !.constraints = ResourceConstraints_clear(artifacts.constraints),
        !.virtual_buffers = NamedSlotMap_clear(artifacts.virtual_buffers),
        !.virtual_textures = NamedSlotMap_clear(artifacts.virtual_textures)]

\* the RenderCommands compile builds over Some(artifacts) for a graph of n
\* nodes: every structure of the artifacts is taken and cleared
RecycledCommands(n, artifacts) ==
    [RenderCommands_new(n) EXCEPT
        !.queue = Vec_clear(artifacts.queue),
        !.bind_cache = BindGroupCache_clear(artifacts.bind_cache),
        !.constraints = ResourceConstraints_clear(artifacts.constraints),
        !.virtual_buffers = NamedSlotMap_clear(artifacts.virtual_buffers),
        !.virtual_textures = NamedSlotMap_clear(artifacts.virtual_textures)]

\* compile(pipelines, Some(artifacts)): [result, comp]
RenderGraph_compile_recycling(g, artifacts) ==
    LET n == Len(g.slotmap)
        deps == Dependencies(g, [k \in 1..n |-> <<>>], 1)
        topo == TopoSort([nodes |-> <<>>, stack |-> <<>>, visited |-> {}, cycle |-> <<>>],
                         deps, 1, n)
    IN IF topo.cycle # <<>>
       THEN [result |-> [NoResult EXCEPT
                            !.status = "CycleDetected",
                            !.cycle = <<NamedSlotMap_get_name(g, topo.cycle[1]),
                                        NamedSlotMap_get_name(g, topo.cycle[2])>>],
             comp |-> NoCompilation]
       ELSE CompileTail(g, RunNodes(RecycledCommands(n, artifacts), g, topo.nodes, 1),
                        deps, topo.nodes)

\* into_artifacts(self): the compilation without its pipeline store
RenderGraphCompilation_into_artifacts(c) ==
    [queue |-> c.queue, bind_cache |-> c.bind_cache, constraints |-> c.constraints,
     virtual_buffers |-> c.virtual_buffers, virtual_textures |-> c.virtual_textures]

\* an into_compilation that starts from an empty bind-group cache
RenderCompilationArtifacts_into_compilation_new_cache(artifacts, pipelines) ==
    [valid |-> TRUE, queue |-> artifacts.queue, bind_cache |-> BindGroupCache_new,
     constraints |-> artifacts.constraints,
     virtual_buffers |-> artifacts.virtual_buffers,
     virtual_textures |-> artifacts.virtual_textures]

\* into_compilation(self, pipelines); the pipeline store is borrowed, and the
\* model has the one store PipelineStorage
RenderCompilationArtifacts_into_compilation(artifacts, pipelines) ==
    [valid |-> TRUE, queue |-> artifacts.queue, bind_cache |-> artifacts.bind_cache,
     constraints |-> artifacts.constraints,
     virtual_buffers |-> artifacts.virtual_buffers,
     virtual_textures |-> artifacts.virtual_textures]

\* from_artifacts(artifacts, pipelines)
RenderGraphCompilation_from_artifacts(artifacts, pipelines) ==
    RenderCompilationArtifacts_into_compilation(artifacts, pipelines)

\* ------------------------------------------------------------------------
\* The ordering compiler as a state machine: nodes are added to a graph, then
\* the graph is compiled once.  Node i is the i-th node added and is named i;
\* before and after lists may name nodes that are never added.
\* ------------------------------------------------------------------------
NoOutcome == [status |-> "none", error |-> NoError, bound_buffers |-> EmptyMap]

InitIdle ==
    /\ graph = RenderGraph_new
    /\ result = NoResult
    /\ comp = NoCompilation
    /\ cmds = RenderCommands_new(0)
    /\ pass = NoPass
    /\ hist = <<>>
    /\ outcome = NoOutcome
    /\ gpu = <<>>

NodeNames == 1..MaxNodes

RECURSIVE EdgeCount(_, _)
EdgeCount(g, k) ==
    IF k > Len(g.slotmap) THEN 0
    ELSE Len(g.slotmap[k].before) + Len(g.slotmap[k].after) + EdgeCount(g, k + 1)

\* graph.add(node), the node running no command
AddNode(before, after) ==
    /\ result.status = "none"
    /\ Len(graph.slotmap) < MaxNodes
    /\ EdgeCount(graph, 1) + Len(before) + Len(after) <= MaxEdges
    /\ graph' = RenderGraph_add(graph,
                    RenderNodeMeta(Len(graph.slotmap) + 1, before, after, 1))
    /\ UNCHANGED <<result, comp, cmds, pass, hist, outcome, gpu>>

\* graph.compile(pipelines, None)
\* a compile that drops the after sets of the nodes it has sorted
Compile_forgetting ==
    /\ result.status = "none"
    /\ LET r == RenderGraph_compile(graph)
       IN /\ result' = r.result
          /\ comp' = r.comp
    /\ graph' = [graph EXCEPT !.slotmap =
                    [k \in 1..Len(graph.slotmap) |-> [graph.slotmap[k] EXCEPT !.after = <<>>]]]
    /\ UNCHANGED <<cmds, pass, hist, outcome, gpu>>

Compile ==
    /\ result.status = "none"
    /\ LET r == RenderGraph_compile(graph)
       IN /\ result' = r.result
          /\ comp' = r.comp
    /\ UNCHANGED <<graph, cmds, pass, hist, outcome, gpu>>

NextGraph ==
    \/ \E nb \in 0..MaxEdges, na \in 0..MaxEdges :
         \E before \in SeqsNoDup(NodeNames, nb), after \in SeqsNoDup(NodeNames, na) :
            AddNode(before, after)
    \/ Compile

SpecGraph == InitIdle /\ [][NextGraph]_vars

\* ------------------------------------------------------------------------
\* Compile and run as a state machine: nodes that record commands are added
\* (ordering given by after lists), the graph is compiled, the compilation is
\* run once against retained resources.
\* ------------------------------------------------------------------------
MaxRecordingNodes == 2
MaxAfter == 1

RecordingNames == 1..MaxRecordingNodes

AllBufferUsages == {"COPY_SRC", "COPY_DST", "UNIFORM", "STORAGE"}

\* the retained buffers a caller may hold under the name 1
RetainedBuffers ==
    { [size |-> 3, usage |-> AllBufferUsages],
      [size |-> 4, usage |-> AllBufferUsages],
      [size |-> 4, usage |-> {"COPY_DST", "COPY_SRC"}],
      [size |-> 0, usage |-> {}] }

\* the retained textures a caller may hold under the name 1
RetainedTextures ==
    { [size |-> TextureSize("D2", 2, 2, 0), format |-> "Rgba8Unorm",
       usage |-> {"COPY_DST", "STORAGE_BINDING", "TEXTURE_BINDING"},
       mip_level_count |-> 1, sample_count |-> 1],
      [size |-> TextureSize("D2", 2, 2, 0), format |-> "Rgba8Unorm",
       usage |-> {"TEXTURE_BINDING"}, mip_level_count |-> 1, sample_count |-> 1],
      [size |-> TextureSize("D2", 4, 4, 0), format |-> "Rgba8Unorm",
       usage |-> {"COPY_DST", "STORAGE_BINDING", "TEXTURE_BINDING"},
       mip_level_count |-> 1, sample_count |-> 1],
      [size |-> TextureSize("D2", 2, 2, 0), format |-> "R32Float",
       usage |-> {"COPY_DST", "STORAGE_BINDING", "TEXTURE_BINDING"},
       mip_level_count |-> 3, sample_count |-> 4] }

RenderResources ==
    { [buffers |-> b, textures |-> t] :
        b \in {EmptyMap} \cup { Put(EmptyMap, 1, r) : r \in RetainedBuffers },
        t \in {EmptyMap} \cup { Put(EmptyMap, 1, r) : r \in RetainedTextures } }

\* graph.add(node), the node running NodeFns[run_fn]
AddRecordingNode(after, run_fn) ==
    /\ result.status = "none"
    /\ Len(graph.slotmap) < MaxRecordingNodes
    /\ EdgeCount(graph, 1) + Len(after) <= MaxAfter
    /\ graph' = RenderGraph_add(graph,
                    RenderNodeMeta(Len(graph.slotmap) + 1, <<>>, after, run_fn))
    /\ UNCHANGED <<result, comp, cmds, pass, hist, outcome, gpu>>

\* compilation.run(ctx, res)
Run(res) ==
    /\ comp.valid
    /\ outcome.status = "none"
    /\ LET r == RenderGraphCompilation_run(comp, res)
       IN /\ outcome' = [status |-> r.status, error |-> r.error,
                        bound_buffers |-> r.bound_buffers]
          /\ gpu' = r.gpu
          /\ hist' = <<res>>
    /\ UNCHANGED <<graph, result, comp, cmds, pass>>

NextCompile ==
    \/ \E n \in 0..MaxAfter, run_fn \in 1..Len(NodeFns) :
         \E after \in SeqsNoDup(RecordingNames, n) : AddRecordingNode(after, run_fn)
    \/ Compile
    \/ \E res \in RenderResources : Run(res)

SpecCompile == InitIdle /\ [][NextCompile]_vars

\* ------------------------------------------------------------------------
\* A compilation taken apart and rebuilt: the graph is compiled, the
\* compilation is turned into its artifacts, a compilation is rebuilt from
\* them and run.  hist[1] holds the compilation that was taken apart and its
\* artifacts, hist[2] the resources of the run.
\* ------------------------------------------------------------------------
\* compilation.into_artifacts(), which consumes the compilation
IntoArtifacts ==
    /\ comp.valid
    /\ hist = <<>>
    /\ hist' = << [original |-> comp,
                   artifacts |-> RenderGraphCompilation_into_artifacts(comp)] >>
    /\ comp' = NoCompilation
    /\ UNCHANGED <<graph, result, cmds, pass, outcome, gpu>>

\* RenderGraphCompilation::from_artifacts(artifacts, pipelines)
FromArtifacts ==
    /\ Len(hist) = 1
    /\ ~comp.valid
    /\ comp' = RenderGraphCompilation_from_artifacts(hist[1].artifacts, PipelineStorage)
    /\ UNCHANGED <<graph, result, cmds, pass, hist, outcome, gpu>>

\* run(ctx, res) on the rebuilt compilation
RunRebuilt(res) ==
    /\ comp.valid
    /\ Len(hist) = 1
    /\ LET r == RenderGraphCompilation_run(comp, res)
       IN /\ outcome' = [status |-> r.status, error |-> r.error,
                        bound_buffers |-> r.bound_buffers]
          /\ gpu' = r.gpu
    /\ hist' = Append(hist, res)
    /\ UNCHANGED <<graph, result, comp, cmds, pass>>

NextArtifacts ==
    \/ \E n \in 0..MaxAfter, run_fn \in 1..Len(NodeFns) :
         \E after \in SeqsNoDup(RecordingNames, n) : AddRecordingNode(after, run_fn)
    \/ Compile
    \/ IntoArtifacts
    \/ FromArtifacts
    \/ \E res \in RenderResources : RunRebuilt(res)

SpecArtifacts == InitIdle /\ [][NextArtifacts]_vars

\* ------------------------------------------------------------------------
\* One graph compiled twice: compile borrows the graph mutably and returns
\* it, so a second compile(pipelines, None) can follow the first.  hist[1]
\* holds what the second call returned.
\* ------------------------------------------------------------------------
\* graph.compile(pipelines, None), a second time
Recompile ==
    /\ result.status # "none"
    /\ hist = <<>>
    /\ hist' = << RenderGraph_compile(graph) >>
    /\ UNCHANGED <<graph, result, comp, cmds, pass, outcome, gpu>>

NextRecompile ==
    \/ \E n \in 0..MaxAfter, run_fn \in 1..Len(NodeFns) :
         \E after \in SeqsNoDup(RecordingNames, n) : AddRecordingNode(after, run_fn)
    \/ Compile
    \/ Recompile

SpecRecompile == InitIdle /\ [][NextRecompile]_vars

\* ------------------------------------------------------------------------
\* Compiling over recycled artifacts: an earlier compilation, of a graph of
\* one node running NodeFns[donor], is turned into its artifacts and handed
\* to the compile of the graph.  hist[1] holds the artifacts and what
\* compile(pipelines, None) returns for the same graph.
\* ------------------------------------------------------------------------
\* the node functions of the earlier compilations: a copy between two
\* buffers and a dispatch over a storage buffer
RecycleDonors == {3, 5}

\* the graph of the earlier compilation
DonorGraph(donor) == RenderGraph_add(RenderGraph_new, RenderNodeMeta(1, <<>>, <<>>, donor))

\* graph.compile(pipelines, Some(artifacts))
CompileRecycling(donor) ==
    /\ result.status = "none"
    /\ hist = <<>>
    /\ RenderGraph_compile(DonorGraph(donor)).comp.valid
    /\ \E artifacts \in {RenderGraphCompilation_into_artifacts(
                            RenderGraph_compile(DonorGraph(donor)).comp)} :
          /\ \E r \in {RenderGraph_compile_recycling(graph, artifacts)} :
                result' = r.result /\ comp' = r.comp
          /\ hist' = << [artifacts |-> artifacts, fresh |-> RenderGraph_compile(graph)] >>
    /\ UNCHANGED <<graph, cmds, pass, outcome, gpu>>

NextRecycle ==
    \/ \E n \in 0..MaxAfter, run_fn \in 1..Len(NodeFns) :
         \E after \in SeqsNoDup(RecordingNames, n) : AddRecordingNode(after, run_fn)
    \/ \E donor \in RecycleDonors : CompileRecycling(donor)

SpecRecycle == InitIdle /\ [][NextRecycle]_vars

\* ------------------------------------------------------------------------
\* Graphs of nodes that read and write buffers: up to MaxConflictNodes nodes
\* with after lists are added, then the graph is compiled.
\* ------------------------------------------------------------------------
MaxConflictNodes == 3
MaxConflictEdges == 2

ConflictNames == 1..MaxConflictNodes

\* nodes that write buffer 1, copy buffer 1 to buffer 2, and read buffer 1
\* through a uniform binding
ConflictFns == {2, 3, 6}

\* graph.add(node), the node running NodeFns[run_fn]
AddConflictNode(before, after, run_fn) ==
    /\ result.status = "none"
    /\ Len(graph.slotmap) < MaxConflictNodes
    /\ EdgeCount(graph, 1) + Len(before) + Len(after) <= MaxConflictEdges
    /\ graph' = RenderGraph_add(graph,
                    RenderNodeMeta(Len(graph.slotmap) + 1, before, after, run_fn))
    /\ UNCHANGED <<result, comp, cmds, pass, hist, outcome, gpu>>

NextConflict ==
    \/ \E n \in 0..MaxConflictEdges, run_fn \in ConflictFns :
         \E after \in SeqsNoDup(ConflictNames, n) : AddConflictNode(<<>>, after, run_fn)
    \/ Compile

SpecConflict == InitIdle /\ [][NextConflict]_vars

\* ------------------------------------------------------------------------
\* The bind-group cache as a state machine: a sequence of get_handle requests
\* on the cache of one recording surface; hist keeps every request with the
\* handle it returned.
\* ------------------------------------------------------------------------
MaxRequests == 3

CacheLayouts == {1, 2}

CacheBindingLists ==
    { << <<0, BufferBinding(1, 0, None, "Infer")>> >>,
      << <<0, BufferBinding(2, 0, None, "Infer")>> >>,
      << <<0, BufferBinding(1, 0, None, "Infer")>>,
         <<1, BufferBinding(2, 0, None, "Infer")>> >> }

\* bind_cache.get_handle(layout, resources)
GetHandle(layout, resources) ==
    /\ Len(hist) < MaxRequests
    /\ cmds' = [cmds EXCEPT !.bind_cache = BindGroupCache_get_handle(@, layout, resources)]
    /\ hist' = Append(hist, [layout |-> layout, resources |-> resources,
                             handle |-> BindGroupCache_handle_of(cmds.bind_cache,
                                                                 layout, resources)])
    /\ UNCHANGED <<graph, result, comp, pass, outcome, gpu>>

NextCache == \E layout \in CacheLayouts, resources \in CacheBindingLists :
                GetHandle(layout, resources)

SpecCache == InitIdle /\ [][NextCache]_vars

\* ------------------------------------------------------------------------
\* The recording surface as a state machine: the nodes of a compilation, one
\* after the other, name buffers and textures and write to them; hist keeps
\* every buffer(name) and texture(name) call with the handle it returned and
\* the resource list it left.
\* ------------------------------------------------------------------------
MaxCalls == 4
MaxSurfaceNodes == 2

ResourceNames == {1, 2}

InitSurface ==
    /\ graph = RenderGraph_new
    /\ result = NoResult
    /\ comp = NoCompilation
    /\ cmds = RenderCommands_new(MaxSurfaceNodes)
    /\ pass = NoPass
    /\ hist = <<>>
    /\ outcome = NoOutcome
    /\ gpu = <<>>

\* commands.buffer(name)
BufferCall(name) ==
    /\ Len(hist) + Len(cmds.queue) < MaxCalls
    /\ cmds' = RenderCommands_buffer(cmds, name)
    /\ hist' = Append(hist, [kind |-> "Buffer", name |-> name, node |-> cmds.node_index,
                             handle |-> RenderCommands_buffer_handle(cmds, name),
                             resources |-> cmds'.resources])
    /\ UNCHANGED <<graph, result, comp, pass, outcome, gpu>>

\* commands.texture(name)
TextureCall(name) ==
    /\ Len(hist) + Len(cmds.queue) < MaxCalls
    /\ cmds' = RenderCommands_texture(cmds, name)
    /\ hist' = Append(hist, [kind |-> "Texture", name |-> name, node |-> cmds.node_index,
                             handle |-> RenderCommands_texture_handle(cmds, name),
                             resources |-> cmds'.resources])
    /\ UNCHANGED <<graph, result, comp, pass, outcome, gpu>>

\* commands.write_buffer(buffer, offset, bytes) on a handle that buffer(name)
\* returned
WriteBufferCall(name, offset, len) ==
    /\ Len(hist) + Len(cmds.queue) < MaxCalls
    /\ NamedSlotMap_get_key(cmds.virtual_buffers, name) # None
    /\ cmds' = RenderCommands_write_buffer(cmds,
                    NamedSlotMap_get_key(cmds.virtual_buffers, name), offset, len)
    /\ UNCHANGED <<graph, result, comp, pass, hist, outcome, gpu>>

\* compile hands the surface to the next node of the order
NextNode ==
    /\ cmds.node_index + 1 < MaxSurfaceNodes
    /\ cmds' = [cmds EXCEPT !.node_index = @ + 1]
    /\ UNCHANGED <<graph, result, comp, pass, hist, outcome, gpu>>

NextSurface ==
    \/ \E name \in ResourceNames : BufferCall(name)
    \/ \E name \in ResourceNames : TextureCall(name)
    \/ \E name \in ResourceNames, offset \in {0, 1} : WriteBufferCall(name, offset, 1)
    \/ NextNode

SpecSurface == InitSurface /\ [][NextSurface]_vars

\* ------------------------------------------------------------------------
\* Transfers on the recording surface: the buffers 1 and 2 and the texture 1
\* have been named, and the nodes of the compilation copy between the
\* buffers and write to the texture.  hist[1] holds the last call, with the
\* surface it was made on.
\* ------------------------------------------------------------------------
MaxTransfers == 2

InitTransfers ==
    /\ graph = RenderGraph_new
    /\ result = NoResult
    /\ comp = NoCompilation
    /\ cmds = RenderCommands_texture(
                RenderCommands_buffer(
                    RenderCommands_buffer(RenderCommands_new(MaxSurfaceNodes), 1), 2), 1)
    /\ pass = NoPass
    /\ hist = <<>>
    /\ outcome = NoOutcome
    /\ gpu = <<>>

\* commands.copy_buffer_to_buffer(src, src_offset, dst, dst_offset, size)
CopyBufferToBufferCall(src, src_offset, dst, dst_offset, size) ==
    /\ Ok(cmds)
    /\ Len(cmds.queue) < MaxTransfers
    /\ cmds' = RenderCommands_copy_buffer_to_buffer(cmds, src, src_offset,
                                                    dst, dst_offset, size)
    /\ hist' = << [call |-> "copy_buffer_to_buffer", src |-> src, src_offset |-> src_offset,
                   dst |-> dst, dst_offset |-> dst_offset, size |-> size,
                   before |-> cmds] >>
    /\ UNCHANGED <<graph, result, comp, pass, outcome, gpu>>

\* commands.write_texture(view, data, layout, size) on the texture 1
WriteTextureCall(mip_level) ==
    /\ Ok(cmds)
    /\ Len(cmds.queue) < MaxTransfers
    /\ cmds' = RenderCommands_write_texture(cmds,
                    CopyView(NamedSlotMap_get_key(cmds.virtual_textures, 1),
                             mip_level, <<0, 0, 0>>, "All"),
                    4, <<1, 1, 1>>)
    /\ hist' = << [call |-> "write_texture",
                   src |-> NamedSlotMap_get_key(cmds.virtual_textures, 1),
                   src_offset |-> 0, dst |-> None, dst_offset |-> 0, size |-> 4,
                   before |-> cmds] >>
    /\ UNCHANGED <<graph, result, comp, pass, outcome, gpu>>

NextTransfers ==
    \/ \E src \in {1, 2}, src_offset \in {0, 1}, dst \in {1, 2}, dst_offset \in {0, 2} :
            CopyBufferToBufferCall(src, src_offset, dst, dst_offset, 1)
    \/ \E mip_level \in {0, 1} : WriteTextureCall(mip_level)
    \/ NextNode

SpecTransfers == InitTransfers /\ [][NextTransfers]_vars

\* ------------------------------------------------------------------------
\* One node function as a state machine: every step is one recording call
\* of the closure on the surface compile handed it.  hist holds every call
\* made (its position in RecordingCalls) with the surface it found.
\* ------------------------------------------------------------------------
MaxRecordedCalls == 3

RecordingCalls ==
    << [op |-> "has_size", name |-> 1, size |-> TextureSize("D2", 2, 2, 0)],
       [op |-> "has_size", name |-> 1, size |-> TextureSize("D2", 4, 4, 0)],
       [op |-> "has_format", name |-> 1, format |-> "Rgba8Unorm"],
       [op |-> "has_format", name |-> 1, format |-> "R32Float"],
       [op |-> "write_buffer", name |-> 1, offset |-> 1, len |-> 2],
       [op |-> "write_buffer", name |-> 1, offset |-> 0, len |-> 1],
       [op |-> "copy_buffer_to_buffer", src |-> 1, src_offset |-> 0,
        dst |-> 2, dst_offset |-> 1, size |-> 1],
       [op |-> "write_texture", name |-> 1, mip_level |-> 0, origin |-> <<0, 0, 0>>,
        aspect |-> "All", len |-> 4, extent |-> <<2, 2, 1>>],
       [op |-> "write_texture", name |-> 1, mip_level |-> 2, origin |-> <<0, 0, 0>>,
        aspect |-> "DepthOnly", len |-> 4, extent |-> <<1, 1, 1>>],
       [op |-> "write_texture", name |-> 1, mip_level |-> 1, origin |-> <<1, 0, 0>>,
        aspect |-> "StencilOnly", len |-> 4, extent |-> <<1, 1, 1>>],
       [op |-> "dispatch", pipeline |-> 1,
        bind_group |-> << <<0, BufferBinding(1, 0, 2, "Uniform")>> >>],
       [op |-> "dispatch", pipeline |-> 1,
        bind_group |-> << <<2, BufferBinding(1, 2, None, "Storage(READWRITE)")>> >>],
       [op |-> "dispatch", pipeline |-> 1,
        bind_group |-> << <<3, TextureView_create(1, "All", 1, 2, 0, 2)>> >>],
       [op |-> "dispatch", pipeline |-> 1,
        bind_group |-> << <<4, TextureView_create(1, "All", 0, None, 0, None)>> >>],
       [op |-> "dispatch", pipeline |-> 2,
        bind_group |-> << <<4, TextureView_create(1, "All", 0, None, 0, None)>> >>],
       [op |-> "dispatch", pipeline |-> 2,
        bind_group |-> << <<3, TextureView_create(1, "DepthOnly", 0, None, 0, None)>> >>],
       [op |-> "buffer", name |-> 1],
       [op |-> "texture", name |-> 1] >>

InitRecording ==
    /\ graph = RenderGraph_new
    /\ result = NoResult
    /\ comp = NoCompilation
    /\ cmds = RenderCommands_new(1)
    /\ pass = NoPass
    /\ hist = <<>>
    /\ outcome = NoOutcome
    /\ gpu = <<>>

\* the i-th call of RecordingCalls, made by the closure on the surface
RecordCall(i) ==
    /\ Ok(cmds)
    /\ Len(hist) < MaxRecordedCalls
    /\ cmds' = RunCall(cmds, RecordingCalls[i])
    /\ hist' = Append(hist, [call |-> i, before |-> cmds])
    /\ UNCHANGED <<graph, result, comp, pass, outcome, gpu>>

NextRecording == \E i \in 1..Len(RecordingCalls) : RecordCall(i)

SpecRecording == InitRecording /\ [][NextRecording]_vars

\* ------------------------------------------------------------------------
\* Two bitsets: x and y are created with some length, indices are inserted
\* into them, and x.union_with(&y) is called once.  hist holds <<x, y>>,
\* result the outcome of the union with the sets it found.
\* ------------------------------------------------------------------------
MaxInserts == 2

\* lengths within one word, of exactly one word, and of two words
BitsetLens == {0, 4, 64, 65}

BitIndices == {1, 3, 63, 64, 70}

NoUnion == [status |-> "none", x |-> Bitset_new(0), y |-> Bitset_new(0)]

InitBitset ==
    /\ graph = RenderGraph_new
    /\ result = NoUnion
    /\ comp = NoCompilation
    /\ cmds = RenderCommands_new(0)
    /\ pass = NoPass
    /\ \E lx \in BitsetLens, ly \in BitsetLens : hist = <<Bitset_new(lx), Bitset_new(ly)>>
    /\ outcome = NoOutcome
    /\ gpu = <<>>

\* x.insert(index) for which = 1, y.insert(index) for which = 2
InsertBit(which, index) ==
    /\ result.status = "none"
    /\ Cardinality(hist[which].bits) < MaxInserts
    /\ hist' = [hist EXCEPT ![which] = Bitset_insert(@, index)]
    /\ UNCHANGED <<graph, result, comp, cmds, pass, outcome, gpu>>

\* x.union_with(&y)
UnionWith ==
    /\ result.status = "none"
    /\ \E r \in {Bitset_union_with(hist[1], hist[2])} :
          /\ result' = [status |-> IF r.panic THEN "panic" ELSE "done",
                        x |-> hist[1], y |-> hist[2]]
          /\ hist' = <<r.set, hist[2]>>
    /\ UNCHANGED <<graph, comp, cmds, pass, outcome, gpu>>

NextBitset ==
    \/ \E which \in {1, 2}, index \in BitIndices : InsertBit(which, index)
    \/ UnionWith

SpecBitset == InitBitset /\ [][NextBitset]_vars

\* ------------------------------------------------------------------------
\* The graphs whose order and cycles are examined: every node may name any
\* node, itself and nodes added later included, in both of its lists
\* ------------------------------------------------------------------------
MaxOrderNodes == 3
MaxOrderEdges == 3

OrderNames == 1..MaxOrderNodes

\* the (before, after) pairs of lists a node can be given
OrderLists ==
    {p \in SeqsNoDup(OrderNames, MaxOrderEdges) \X SeqsNoDup(OrderNames, MaxOrderEdges) :
        Len(p[1]) + Len(p[2]) <= MaxOrderEdges}

\* graph.add(node), the node running no command
AddOrderedNode(before, after) ==
    /\ result.status = "none"
    /\ Len(graph.slotmap) < MaxOrderNodes
    /\ EdgeCount(graph, 1) + Len(before) + Len(after) <= MaxOrderEdges
    /\ graph' = RenderGraph_add(graph,
                    RenderNodeMeta(Len(graph.slotmap) + 1, before, after, 1))
    /\ UNCHANGED <<result, comp, cmds, pass, hist, outcome, gpu>>

NextOrder ==
    \/ \E lists \in OrderLists : AddOrderedNode(lists[1], lists[2])
    \/ Compile

SpecOrder == InitIdle /\ [][NextOrder]_vars

\* ------------------------------------------------------------------------
\* Nodes added under names that may repeat: graph.add(node) with the node's
\* name drawn from NodeNames, whatever names the graph already holds
\* ------------------------------------------------------------------------
MaxSlots == 4

AddNamed(name, run_fn) ==
    /\ Len(graph.slotmap) < MaxSlots
    /\ graph' = RenderGraph_add(graph, RenderNodeMeta(name, <<>>, <<>>, run_fn))
    /\ UNCHANGED <<result, comp, cmds, pass, hist, outcome, gpu>>

NextSlotMap == \E name \in NodeNames, run_fn \in 1..2 : AddNamed(name, run_fn)

SpecSlotMap == InitIdle /\ [][NextSlotMap]_vars

\* ------------------------------------------------------------------------
\* A byte stream decoded into words: bytes are appended to the input, then
\* next() is called on its word iterator until it returns None.  hist holds
\* the input, the bytes the iterator has not consumed, the words it yielded
\* and whether it has returned None.
\* ------------------------------------------------------------------------
MaxBytes == 6

Bytes == {0, 1, 127}

InitWords ==
    /\ graph = RenderGraph_new
    /\ result = NoResult
    /\ comp = NoCompilation
    /\ cmds = RenderCommands_new(0)
    /\ pass = NoPass
    /\ hist = [input |-> <<>>, rest |-> <<>>, words |-> <<>>, started |-> FALSE,
               done |-> FALSE]
    /\ outcome = NoOutcome
    /\ gpu = <<>>

\* one more byte of the input
PushByte(b) ==
    /\ ~hist.started
    /\ Len(hist.input) < MaxBytes
    /\ hist' = [hist EXCEPT !.input = Append(@, b), !.rest = Append(@, b)]
    /\ UNCHANGED <<graph, result, comp, cmds, pass, outcome, gpu>>

\* iter.next() on the word iterator
NextWord ==
    /\ ~hist.done
    /\ \E r \in {U8ToU32Iterator_next(hist.rest)} :
          hist' = [hist EXCEPT !.started = TRUE,
                               !.rest = r.rest,
                               !.words = @ \o r.item,
                               !.done = (r.item = <<>>)]
    /\ UNCHANGED <<graph, result, comp, cmds, pass, outcome, gpu>>

NextWords ==
    \/ \E b \in Bytes : PushByte(b)
    \/ NextWord

SpecWords == InitWords /\ [][NextWords]_vars

\* ------------------------------------------------------------------------
\* The sample type of one texture: the texture 1 has been named and a
\* sequence of set_sample_type calls reaches its constraints.  hist holds
\* every call with the sample-type constraint it found.
\* ------------------------------------------------------------------------
MaxSampleCalls == 3

SampleTypes == {"Float(true)", "Float(false)", "Depth", "Sint", "Uint"}

InitSampleType ==
    /\ graph = RenderGraph_new
    /\ result = NoResult
    /\ comp = NoCompilation
    /\ cmds = RenderCommands_texture(RenderCommands_new(1), 1)
    /\ pass = NoPass
    /\ hist = <<>>
    /\ outcome = NoOutcome
    /\ gpu = <<>>

\* get_texture_constraints(texture).set_sample_type(ty)
SetSampleType(ty) ==
    /\ Len(hist) < MaxSampleCalls
    /\ \E texture \in {NamedSlotMap_get_key(cmds.virtual_textures, 1)} :
          /\ cmds' = SetTextureConstraints(cmds, texture,
                        TextureConstraints_set_sample_type(
                            RenderCommands_get_texture_constraints(cmds, texture), ty))
          /\ hist' = Append(hist,
                        [ty |-> ty,
                         before |-> RenderCommands_get_texture_constraints(cmds, texture)
                                        .sample_type])
    /\ UNCHANGED <<graph, result, comp, pass, outcome, gpu>>

NextSampleType == \E ty \in SampleTypes : SetSampleType(ty)

SpecSampleType == InitSampleType /\ [][NextSampleType]_vars

\* ------------------------------------------------------------------------
\* One compute pass as a state machine: a node names a buffer and a texture,
\* opens a compute pass and calls pipeline, bind_group and dispatch on it in
\* any order.  hist holds the last dispatch: the pass it was called on, the
\* pass and the surface it left.
\* ------------------------------------------------------------------------
MaxPassCommands == 3

\* the bindings a node builds from the handles of its buffer and its texture
PassBindings ==
    { BufferBinding(1, 0, 2, "Uniform"),
      BufferBinding(1, 0, 1, "Uniform"),
      BufferBinding(1, 1, None, "Storage(READ)"),
      BufferBinding(1, 0, None, "Storage(READWRITE)"),
      BufferBinding(1, 0, None, "Infer"),
      TextureView_create(1, "All", 0, None, 0, None) }

PassSlots == 0..5

\* the binding lists handed to bind_group, one set per group index 0 and 1
PassBindingLists ==
    << { << <<slot, b>> >> : slot \in PassSlots, b \in PassBindings },
       { << <<0, BufferBinding(1, 0, None, "Infer")>> >> } >>

PassCommands == cmds.queue[pass.command_index].commands

InitPass ==
    /\ graph = RenderGraph_new
    /\ result = NoResult
    /\ comp = NoCompilation
    /\ cmds = RenderCommands_new(1)
    /\ pass = NoPass
    /\ hist = <<>>
    /\ outcome = NoOutcome
    /\ gpu = <<>>

\* commands.buffer(name), the node naming its buffer
PassBuffer ==
    /\ cmds.queue = <<>>
    /\ NamedSlotMap_len(cmds.virtual_buffers) = 0
    /\ cmds' = RenderCommands_buffer(cmds, 1)
    /\ UNCHANGED <<graph, result, comp, pass, hist, outcome, gpu>>

\* commands.texture(name), the node naming its texture
PassTexture ==
    /\ cmds.queue = <<>>
    /\ NamedSlotMap_len(cmds.virtual_textures) = 0
    /\ cmds' = RenderCommands_texture(cmds, 1)
    /\ UNCHANGED <<graph, result, comp, pass, hist, outcome, gpu>>

\* commands.compute_pass(None), once the handles of the bindings exist
BeginPass ==
    /\ ~pass.open
    /\ cmds.queue = <<>>
    /\ NamedSlotMap_len(cmds.virtual_buffers) = 1
    /\ NamedSlotMap_len(cmds.virtual_textures) = 1
    /\ cmds' = RenderCommands_compute_pass(cmds, "None")
    /\ pass' = ComputePassCommands_new(cmds)
    /\ UNCHANGED <<graph, result, comp, hist, outcome, gpu>>

\* pass.pipeline(pipeline)
Pipeline(pipeline) ==
    /\ pass.open /\ Ok(cmds)
    /\ Len(PassCommands) < MaxPassCommands
    /\ LET r == ComputePassCommands_pipeline(cmds, pass, pipeline)
       IN cmds' = r.rc /\ pass' = r.ps
    /\ UNCHANGED <<graph, result, comp, hist, outcome, gpu>>

\* pass.bind_group(index, bind_group)
BindGroup(index, bind_group) ==
    /\ pass.open /\ Ok(cmds)
    /\ LET r == ComputePassCommands_bind_group(cmds, pass, index, bind_group)
       IN cmds' = r.rc /\ pass' = r.ps
    /\ UNCHANGED <<graph, result, comp, hist, outcome, gpu>>

\* pass.dispatch(1, 1, 1)
Dispatch ==
    /\ pass.open /\ Ok(cmds)
    /\ Len(PassCommands) < MaxPassCommands
    /\ \E r \in {ComputePassCommands_dispatch(cmds, pass, 1, 1, 1)} :
          /\ cmds' = r.rc
          /\ pass' = r.ps
          /\ hist' = << [before |-> pass, after |-> r.ps, surface |-> r.rc] >>
    /\ UNCHANGED <<graph, result, comp, outcome, gpu>>

NextPass ==
    \/ PassBuffer
    \/ PassTexture
    \/ BeginPass
    \/ \E pipeline \in DOMAIN PipelineStorage.compute_pipelines : Pipeline(pipeline)
    \/ \E index \in {0, 1} : \E bind_group \in PassBindingLists[index + 1] :
            BindGroup(index, bind_group)
    \/ Dispatch

SpecPass == InitPass /\ [][NextPass]_vars

\* ------------------------------------------------------------------------
\* The calls of one compute pass, in the order they are made: the pass is
\* open on a surface that holds a buffer and a texture, and hist is the log
\* of the pipeline, bind_group and dispatch calls made on it, each with the
\* surface and the pass it was made on.
\* ------------------------------------------------------------------------
MaxPassCalls == 4

\* the binding lists handed to bind_group, one set per group index 0 and 1
OrderBindingLists ==
    << { << <<0, BufferBinding(1, 0, 2, "Uniform")>> >>,
         << <<1, BufferBinding(1, 0, None, "Storage(READ)")>> >> },
       { << <<0, BufferBinding(1, 0, None, "Infer")>> >> } >>

InitPassOrder ==
    /\ graph = RenderGraph_new
    /\ result = NoResult
    /\ comp = NoCompilation
    /\ cmds = RenderCommands_compute_pass(
                RenderCommands_texture(RenderCommands_buffer(RenderCommands_new(1), 1), 1),
                "None")
    /\ pass = ComputePassCommands_new(
                RenderCommands_texture(RenderCommands_buffer(RenderCommands_new(1), 1), 1))
    /\ hist = <<>>
    /\ outcome = NoOutcome
    /\ gpu = <<>>

\* pass.pipeline(pipeline)
PipelineCall(pipeline) ==
    /\ Ok(cmds)
    /\ Len(hist) < MaxPassCalls
    /\ LET r == ComputePassCommands_pipeline(cmds, pass, pipeline)
       IN cmds' = r.rc /\ pass' = r.ps
    /\ hist' = Append(hist, [call |-> "pipeline", arg |-> pipeline, list |-> <<>>,
                             before |-> cmds, ps |-> pass])
    /\ UNCHANGED <<graph, result, comp, outcome, gpu>>

\* pass.bind_group(index, bind_group)
BindGroupCall(index, bind_group) ==
    /\ Ok(cmds)
    /\ Len(hist) < MaxPassCalls
    /\ LET r == ComputePassCommands_bind_group(cmds, pass, index, bind_group)
       IN cmds' = r.rc /\ pass' = r.ps
    /\ hist' = Append(hist, [call |-> "bind_group", arg |-> index, list |-> bind_group,
                             before |-> cmds, ps |-> pass])
    /\ UNCHANGED <<graph, result, comp, outcome, gpu>>

\* pass.dispatch(1, 1, 1)
DispatchCall ==
    /\ Ok(cmds)
    /\ Len(hist) < MaxPassCalls
    /\ \E r \in {ComputePassCommands_dispatch(cmds, pass, 1, 1, 1)} :
          cmds' = r.rc /\ pass' = r.ps
    /\ hist' = Append(hist, [call |-> "dispatch", arg |-> 0, list |-> <<>>,
                             before |-> cmds, ps |-> pass])
    /\ UNCHANGED <<graph, result, comp, outcome, gpu>>

NextPassOrder ==
    \/ \E pipeline \in {1, 2, 3} : PipelineCall(pipeline)
    \/ \E index \in {0, 1} : \E bind_group \in OrderBindingLists[index + 1] :
            BindGroupCall(index, bind_group)
    \/ DispatchCall

SpecPassOrder == InitPassOrder /\ [][NextPassOrder]_vars

\* ------------------------------------------------------------------------
\* The binding lists of one group: the pass has pipeline 1 selected, whose
\* layout has the single group 0 with entries at the slots 0..5, and the
\* node binds lists to group 0 and dispatches.
\* ------------------------------------------------------------------------
\* the same two pairs in two iteration orders, a pair at a slot the layout
\* has no entry for, and single pairs with an offset
BindOrderLists ==
    { << <<0, BufferBinding(1, 0, 2, "Uniform")>>,
         <<1, BufferBinding(1, 0, None, "Storage(READ)")>> >>,
      << <<1, BufferBinding(1, 0, None, "Storage(READ)")>>,
         <<0, BufferBinding(1, 0, 2, "Uniform")>> >>,
      << <<6, BufferBinding(1, 0, 2, "Uniform")>> >>,
      << <<2, BufferBinding(1, 1, None, "Storage(READWRITE)")>> >>,
      << <<0, BufferBinding(1, 1, 3, "Uniform")>> >> }

InitBindOrder ==
    /\ graph = RenderGraph_new
    /\ result = NoResult
    /\ comp = NoCompilation
    /\ cmds = ComputePassCommands_pipeline(
                RenderCommands_compute_pass(
                    RenderCommands_texture(
                        RenderCommands_buffer(RenderCommands_new(1), 1), 1),
                    "None"),
                ComputePassCommands_new(
                    RenderCommands_texture(
                        RenderCommands_buffer(RenderCommands_new(1), 1), 1)),
                1).rc
    /\ pass = ComputePassCommands_pipeline(
                RenderCommands_compute_pass(
                    RenderCommands_texture(
                        RenderCommands_buffer(RenderCommands_new(1), 1), 1),
                    "None"),
                ComputePassCommands_new(
                    RenderCommands_texture(
                        RenderCommands_buffer(RenderCommands_new(1), 1), 1)),
                1).ps
    /\ hist = <<>>
    /\ outcome = NoOutcome
    /\ gpu = <<>>

NextBindOrder ==
    \/ \E bind_group \in BindOrderLists : BindGroupCall(0, bind_group)
    \/ DispatchCall

SpecBindOrder == InitBindOrder /\ [][NextBindOrder]_vars

\* ------------------------------------------------------------------------
\* What the ordering constraints of a graph demand
\* ------------------------------------------------------------------------
\* <<a, b>>: the node named a must run before the node named b
OrderingConstraints(g) ==
    UNION { {<<g.slotmap[k].after[i], g.slotmap[k].name>> : i \in 1..Len(g.slotmap[k].after)}
            \cup {<<g.slotmap[k].name, g.slotmap[k].before[i]>> :
                        i \in 1..Len(g.slotmap[k].before)}
            : k \in 1..Len(g.slotmap) }

GraphNames(g) == {g.slotmap[k].name : k \in 1..Len(g.slotmap)}

NamesPresent(g) ==
    \A e \in OrderingConstraints(g) : e[1] \in GraphNames(g) /\ e[2] \in GraphNames(g)

Chain(E) == E \cup {<<e[1], f[2]>> : <<e, f>> \in {p \in E \X E : p[1][2] = p[2][1]}}

RECURSIVE TransitiveClosure(_, _)
TransitiveClosure(E, n) == IF n = 0 THEN E ELSE TransitiveClosure(Chain(E), n - 1)

\* the constraints between nodes of the graph, transitively closed
Ordered(g) ==
    TransitiveClosure({e \in OrderingConstraints(g) :
                            e[1] \in GraphNames(g) /\ e[2] \in GraphNames(g)},
                      Len(g.slotmap))

HasOrderingCycle(g) == \E a \in GraphNames(g) : <<a, a>> \in Ordered(g)

Position(order, key) == CHOOSE i \in 1..Len(order) : order[i] = key

RespectsOrdering(g, order) ==
    \A e \in OrderingConstraints(g) :
        LET a == NamedSlotMap_get_key(g, e[1])
            b == NamedSlotMap_get_key(g, e[2])
        IN /\ a \in Range(order)
           /\ b \in Range(order)
           /\ Position(order, a) < Position(order, b)

\* C1: for a graph whose constraints have no cycle and name only nodes of the
\* graph, compile produces an execution order that places B before A for every
\* B in A.after and A before B for every B in A.before, whatever the insertion
\* order and the iteration order of the dependency lists, diamonds included.
C1_OrderRespectsConstraints ==
    (result.status # "none" /\ ~HasOrderingCycle(graph) /\ NamesPresent(graph))
        => (result.status # "CycleDetected" /\ RespectsOrdering(graph, result.order))

\* C2: for a graph whose constraints contain an ordering cycle of any length,
\* through the first root of the walk or not, self-references included,
\* compile returns CycleDetected and no compilation.
C2_CycleDetected ==
    (result.status # "none" /\ HasOrderingCycle(graph))
        => (result.status = "CycleDetected" /\ ~comp.valid)

\* ------------------------------------------------------------------------
\* What the node functions of a graph ask of the resources they name
\* ------------------------------------------------------------------------
\* the layout entry a dispatch call validates its i-th binding against
CallEntry(c, i) ==
    PipelineStorage.bind_group_layouts[
        PipelineStorage.pipeline_layouts[
            PipelineStorage.compute_pipelines[c.pipeline].layout].groups[1]
    ].entries[c.bind_group[i][1] + 1]

\* <<kind, name>> of the resources a call writes
CallWrites(c) ==
    CASE c.op = "write_buffer" -> {<<"Buffer", c.name>>}
      [] c.op = "write_texture" -> {<<"Texture", c.name>>}
      [] c.op = "copy_buffer_to_buffer" -> {<<"Buffer", c.dst>>}
      [] c.op = "dispatch" ->
            {<<c.bind_group[i][2].kind, c.bind_group[i][2].handle>> :
                i \in {j \in 1..Len(c.bind_group) :
                        \/ (CallEntry(c, j).ty = "Buffer"
                                /\ CallEntry(c, j).buffer_ty = "Storage"
                                /\ ~CallEntry(c, j).read_only)
                        \/ (CallEntry(c, j).ty = "StorageTexture"
                                /\ CallEntry(c, j).access \in {"WriteOnly", "ReadWrite"})}}
      [] OTHER -> {}

\* <<kind, name>> of the resources a call reads
CallReads(c) ==
    CASE c.op = "copy_buffer_to_buffer" -> {<<"Buffer", c.src>>}
      [] c.op = "dispatch" ->
            {<<c.bind_group[i][2].kind, c.bind_group[i][2].handle>> :
                i \in {j \in 1..Len(c.bind_group) :
                        \/ CallEntry(c, j).ty \in {"Buffer", "Texture"}
                        \/ (CallEntry(c, j).ty = "StorageTexture"
                                /\ CallEntry(c, j).access \in {"ReadOnly", "ReadWrite"})}}
      [] OTHER -> {}

FnWrites(fn) == UNION {CallWrites(fn[i]) : i \in 1..Len(fn)}

FnReads(fn) == UNION {CallReads(fn[i]) : i \in 1..Len(fn)}

NodeFn(g, name) == NodeFns[g.slotmap[NamedSlotMap_get_key(g, name)].run_fn]

\* the [size, usage] demands a call puts on the buffer named name
CallBufferUses(c, name) ==
    CASE c.op = "write_buffer" /\ c.name = name ->
            {[size |-> c.offset + c.len, usage |-> "COPY_DST"]}
      [] c.op = "copy_buffer_to_buffer" ->
            (IF c.src = name THEN {[size |-> c.src_offset + c.size, usage |-> "COPY_SRC"]}
             ELSE {})
            \cup (IF c.dst = name
                  THEN {[size |-> c.dst_offset + c.size, usage |-> "COPY_DST"]} ELSE {})
      [] c.op = "dispatch" ->
            {[size |-> IF c.bind_group[i][2].size # None
                       THEN c.bind_group[i][2].offset + c.bind_group[i][2].size
                       ELSE IF CallEntry(c, i).min_binding_size # None
                       THEN c.bind_group[i][2].offset + CallEntry(c, i).min_binding_size
                       ELSE 0,
              usage |-> IF CallEntry(c, i).buffer_ty = "Uniform" THEN "UNIFORM" ELSE "STORAGE"] :
                i \in {j \in 1..Len(c.bind_group) :
                        /\ c.bind_group[j][2].kind = "Buffer"
                        /\ c.bind_group[j][2].handle = name}}
      [] OTHER -> {}

FnBufferUses(fn, name) == UNION {CallBufferUses(fn[i], name) : i \in 1..Len(fn)}

\* every recorded use of the buffer named name, over the nodes of the graph
BufferUses(g, name) ==
    UNION {FnBufferUses(NodeFns[g.slotmap[k].run_fn], name) : k \in 1..Len(g.slotmap)}

MaxOf(S) == IF S = {} THEN 0 ELSE CHOOSE x \in S : \A y \in S : y <= x

ExpectedMinSize(g, name) == MaxOf({u.size : u \in BufferUses(g, name)})

ExpectedMinUsages(g, name) == {u.usage : u \in BufferUses(g, name)}

\* the names a compilation resolved to virtual buffers
VirtualBufferNames(c) == DOMAIN c.virtual_buffers.names

\* run got as far as the buffer named name: every virtual buffer before it
\* in name order was bound
ReachedBuffer(c, o, name) ==
    \A n \in VirtualBufferNames(c) :
        n < name => NamedSlotMap_get_key(c.virtual_buffers, n) \in DOMAIN o.bound_buffers

BoundAs(c, o, name, how) ==
    LET handle == NamedSlotMap_get_key(c.virtual_buffers, name)
    IN handle \in DOMAIN o.bound_buffers /\ o.bound_buffers[handle] = how

\* the resources the last run was given
RunResources == hist[1]

Unordered(g, a, b) == <<a, b>> \notin Ordered(g) /\ <<b, a>> \notin Ordered(g)

\* C3: two distinct nodes A and B with no transitive ordering in either
\* direction, A writing a resource X (write_buffer, write_texture, copy
\* destination, writable storage binding) that B reads or writes: compile
\* returns WriteOrderAmbiguity and its list names the pair A, B.
C3_AmbiguityReported ==
    (result.status \notin {"none", "panic", "CycleDetected"})
        => \A a \in GraphNames(graph), b \in GraphNames(graph) :
              (/\ a # b
               /\ Unordered(graph, a, b)
               /\ FnWrites(NodeFn(graph, a))
                    \cap (FnReads(NodeFn(graph, b)) \cup FnWrites(NodeFn(graph, b))) # {})
              => /\ result.status = "WriteOrderAmbiguity"
                 /\ (<<a, b>> \in Range(result.ambiguities)
                        \/ <<b, a>> \in Range(result.ambiguities))

\* C6: a retained buffer supplied under the name of a virtual buffer is
\* accepted by run if and only if its size is at least the maximum over the
\* recorded uses of that buffer and its usages contain the union of the flags
\* those uses require; otherwise run returns a BufferError.
C6_RetainedBufferAccepted ==
    (outcome.status # "none")
        => \A name \in VirtualBufferNames(comp) \cap DOMAIN RunResources.buffers :
              LET fits == /\ RunResources.buffers[name].size >= ExpectedMinSize(graph, name)
                          /\ ExpectedMinUsages(graph, name)
                                \subseteq RunResources.buffers[name].usage
              IN ReachedBuffer(comp, outcome, name)
                    => /\ BoundAs(comp, outcome, name, "Retained") <=> fits
                       /\ ~fits => (outcome.status = "Buffer" /\ outcome.error.name = name)

\* C7: for a virtual buffer with no retained buffer of its name, run creates
\* one transient buffer, of exactly the accumulated min_size and exactly the
\* accumulated min_usages, not mapped at creation.
C7_TransientBufferExact ==
    (outcome.status # "none")
        => \A name \in VirtualBufferNames(comp) \ DOMAIN RunResources.buffers :
              ReachedBuffer(comp, outcome, name)
                => /\ BoundAs(comp, outcome, name, "Transient")
                   /\ \E i \in 1..Len(gpu) :
                        /\ gpu[i] = [call |-> "create_buffer",
                                     handle |-> NamedSlotMap_get_key(comp.virtual_buffers, name),
                                     size |-> ExpectedMinSize(graph, name),
                                     usage |-> ExpectedMinUsages(graph, name),
                                     mapped_at_creation |-> FALSE]
                        /\ \A j \in 1..Len(gpu) :
                              (gpu[j].call = "create_buffer" /\ gpu[j].handle = gpu[i].handle)
                                => j = i

HasBufferConstraints(c, name) ==
    NamedSlotMap_get_key(c.virtual_buffers, name) \in DOMAIN c.constraints.buffers

\* The statement of C6 for the virtual buffers that some command uses (the
\* buffers with an entry in the constraint table).
RetainedBufferAcceptedWhenUsed ==
    (outcome.status # "none")
        => \A name \in VirtualBufferNames(comp) \cap DOMAIN RunResources.buffers :
              LET fits == /\ RunResources.buffers[name].size >= ExpectedMinSize(graph, name)
                          /\ ExpectedMinUsages(graph, name)
                                \subseteq RunResources.buffers[name].usage
              IN (ReachedBuffer(comp, outcome, name) /\ HasBufferConstraints(comp, name))
                    => /\ BoundAs(comp, outcome, name, "Retained") <=> fits
                       /\ ~fits => (outcome.status = "Buffer" /\ outcome.error.name = name)

\* The statement of C7 for the virtual buffers that some command uses.
TransientBufferExactWhenUsed ==
    (outcome.status # "none")
        => \A name \in VirtualBufferNames(comp) \ DOMAIN RunResources.buffers :
              (ReachedBuffer(comp, outcome, name) /\ HasBufferConstraints(comp, name))
                => /\ BoundAs(comp, outcome, name, "Transient")
                   /\ \E i \in 1..Len(gpu) :
                        /\ gpu[i] = [call |-> "create_buffer",
                                     handle |-> NamedSlotMap_get_key(comp.virtual_buffers, name),
                                     size |-> ExpectedMinSize(graph, name),
                                     usage |-> ExpectedMinUsages(graph, name),
                                     mapped_at_creation |-> FALSE]
                        /\ \A j \in 1..Len(gpu) :
                              (gpu[j].call = "create_buffer" /\ gpu[j].handle = gpu[i].handle)
                                => j = i

\* C10: a run that returns an error has issued no queue write, no encoder
\* command and no queue submit; compile issues no call at all.
C10_NoWorkOnError ==
    /\ outcome.status = "none" => gpu = <<>>
    /\ outcome.status \in {"Buffer", "Texture"}
          => \A i \in 1..Len(gpu) : gpu[i].call \notin QueueCalls \cup EncoderCalls

\* a run that failed on a compilation with queued commands, after creating a
\* transient resource
C10_Witness ==
    /\ outcome.status \in {"Buffer", "Texture"}
    /\ comp.queue # <<>>
    /\ gpu # <<>>

\* C4: over a sequence of get_handle requests, two requests return the same
\* handle exactly when they have the same layout handle and the same binding
\* list; the same list under two layouts yields two handles.
C4_CacheKeyedByLayoutAndList ==
    \A i \in 1..Len(hist), j \in 1..Len(hist) :
        (hist[i].handle = hist[j].handle)
            <=> (hist[i].layout = hist[j].layout /\ hist[i].resources = hist[j].resources)

\* the resource list a call found: the one the call before it left
ResourcesBefore(i) == IF i = 1 THEN <<>> ELSE hist[i - 1].resources

FirstCall(i) ==
    \A j \in 1..(i - 1) : ~(hist[j].kind = hist[i].kind /\ hist[j].name = hist[i].name)

\* C5: within one compilation every buffer(name) with the same name, from any
\* node, returns the same handle; the first call appends exactly one
\* (name, handle) entry to the resource list and later calls leave the list
\* unchanged; likewise for texture(name).
C5_StableHandles ==
    /\ \A i \in 1..Len(hist), j \in 1..Len(hist) :
          (hist[i].kind = hist[j].kind /\ hist[i].name = hist[j].name)
              => hist[i].handle = hist[j].handle
    /\ \A i \in 1..Len(hist) :
          IF FirstCall(i)
          THEN hist[i].resources =
                    Append(ResourcesBefore(i), [name |-> hist[i].name, kind |-> hist[i].kind,
                                                handle |-> hist[i].handle])
          ELSE hist[i].resources = ResourcesBefore(i)
    /\ hist # <<>> => cmds.resources = hist[Len(hist)].resources

\* the same buffer name called for by two nodes, after another resource was
\* named in between
C5_Witness ==
    \E i \in 1..Len(hist), j \in 1..Len(hist) :
        /\ i + 1 < j
        /\ hist[i].kind = "Buffer" /\ hist[j].kind = "Buffer"
        /\ hist[i].name = hist[j].name
        /\ hist[i].node # hist[j].node
        /\ hist[i + 1].name # hist[i].name

\* the last dispatch: the pass it was called on, the pass and surface it left
LastDispatch == hist[1]

\* the bind-group layouts of the pipeline a dispatch ran with
DispatchLayouts(d) ==
    PipelineStorage.pipeline_layouts[
        PipelineStorage.compute_pipelines[d.before.pipeline].layout].groups

\* the layout entry of the i-th binding of group g (0-based) of a dispatch
DispatchEntry(d, g, i) ==
    PipelineStorage.bind_group_layouts[DispatchLayouts(d)[g + 1]]
        .entries[d.before.bindings[g].list[i][1] + 1]

\* the compatible (binding payload, layout entry) pairs
Compatible(resource, entry) ==
    \/ /\ resource.kind = "Buffer"
       /\ entry.ty = "Buffer"
       /\ \/ resource.usage = "Uniform" /\ entry.buffer_ty = "Uniform"
          \/ resource.usage = "Storage(READ)" /\ entry.buffer_ty = "Storage" /\ entry.read_only
          \/ resource.usage = "Storage(READWRITE)" /\ entry.buffer_ty = "Storage"
                /\ ~entry.read_only
          \/ resource.usage = "Infer"
       /\ (resource.size # None /\ entry.min_binding_size # None)
              => resource.size >= entry.min_binding_size
    \/ /\ resource.kind = "Texture"
       /\ entry.ty \in {"Texture", "StorageTexture"}

\* C8: a dispatch that succeeds validated only compatible pairs: a buffer
\* binding on a buffer entry with a matching usage tag and a binding size of at
\* least min_binding_size, or a texture binding on a Texture or StorageTexture
\* entry; with any other pair the dispatch fails.
C8_DispatchAcceptsOnlyCompatible ==
    (hist # <<>> /\ Ok(LastDispatch.surface))
        => \A g \in 0..(Len(DispatchLayouts(LastDispatch)) - 1) :
              \A i \in 1..Len(LastDispatch.before.bindings[g].list) :
                  Compatible(LastDispatch.before.bindings[g].list[i][2],
                             DispatchEntry(LastDispatch, g, i))

\* a dispatch that failed on a storage binding given to a uniform entry
C8_Witness ==
    /\ hist # <<>>
    /\ ~Ok(LastDispatch.surface)
    /\ LastDispatch.before.pipeline = 1
    /\ LastDispatch.before.bindings[0].some
    /\ LastDispatch.before.bindings[0].list
            = << <<0, BufferBinding(1, 0, None, "Storage(READWRITE)")>> >>

\* the inner commands of the pass after the last dispatch
DispatchCommands(d) == d.surface.queue[d.before.command_index].commands

\* the cache handle the last dispatch resolved group g (0-based) to: the
\* BindGroup command it appended for the group
DispatchHandle(d, g) ==
    DispatchCommands(d)[Len(DispatchCommands(d)) - Len(DispatchLayouts(d)) + g].handle

\* C9: after a dispatch validates a texture binding against a Texture or
\* StorageTexture entry, the view dimension recorded on the binding, both in
\* the pass and in the binding list of the cache entry the dispatch resolved
\* to, is the view dimension of the layout entry.
C9_CacheCopyHasDimension ==
    (hist # <<>> /\ Ok(LastDispatch.surface))
        => \A g \in 0..(Len(DispatchLayouts(LastDispatch)) - 1) :
              \A i \in 1..Len(LastDispatch.before.bindings[g].list) :
                  LastDispatch.before.bindings[g].list[i][2].kind = "Texture"
                    => /\ LastDispatch.after.bindings[g].list[i][2].dimension
                            = DispatchEntry(LastDispatch, g, i).view_dimension
                       /\ BindGroupCache_get_group(LastDispatch.surface.bind_cache,
                                DispatchHandle(LastDispatch, g)).bindings[i][2].dimension
                            = DispatchEntry(LastDispatch, g, i).view_dimension

\* ------------------------------------------------------------------------
\* What a run replays
\* ------------------------------------------------------------------------
\* the calls on the queue and the encoder that one call of a node function
\* must lead to at run, each <<call, a, b, c>> with resources given by name
ExpectedCalls(c) ==
    CASE c.op = "write_buffer" -> << <<"write_buffer", c.name, c.offset, c.len>> >>
      [] c.op = "write_texture" -> << <<"write_texture", c.name, c.mip_level, c.len>> >>
      [] c.op = "copy_buffer_to_buffer" ->
            << <<"copy_buffer_to_buffer", c.src, c.dst, c.size>> >>
      [] c.op = "dispatch" ->
            << <<"begin_compute_pass", 0, 0, 0>>, <<"set_pipeline", c.pipeline, 0, 0>>,
               <<"set_bind_group", 0, 0, 0>>, <<"dispatch_workgroups", 1, 1, 1>> >>
      [] OTHER -> <<>>

RECURSIVE ExpectedFnCalls(_, _)
ExpectedFnCalls(fn, i) ==
    IF i > Len(fn) THEN <<>> ELSE ExpectedCalls(fn[i]) \o ExpectedFnCalls(fn, i + 1)

\* the calls the nodes ask for, node after node in the execution order
RECURSIVE ExpectedReplay(_, _, _)
ExpectedReplay(g, order, i) ==
    IF i > Len(order) THEN <<>>
    ELSE ExpectedFnCalls(NodeFns[g.slotmap[order[i]].run_fn], 1)
         \o ExpectedReplay(g, order, i + 1)

\* a logged call as <<call, a, b, c>>, handles turned back into names
LoggedCall(c, e) ==
    CASE e.call = "write_buffer" ->
            <<e.call, NamedSlotMap_get_name(c.virtual_buffers, e.handle), e.offset, e.len>>
      [] e.call = "write_texture" ->
            <<e.call, NamedSlotMap_get_name(c.virtual_textures, e.handle), e.mip_level, e.len>>
      [] e.call = "copy_buffer_to_buffer" ->
            <<e.call, NamedSlotMap_get_name(c.virtual_buffers, e.src),
              NamedSlotMap_get_name(c.virtual_buffers, e.dst), e.size>>
      [] e.call = "set_pipeline" -> <<e.call, e.pipeline, 0, 0>>
      [] e.call = "set_bind_group" -> <<e.call, e.index, 0, 0>>
      [] e.call = "dispatch_workgroups" -> <<e.call, e.x, e.y, e.z>>
      [] OTHER -> <<e.call, 0, 0, 0>>

\* the calls of the log between create_command_encoder and finish
ReplayedCalls(c, log) ==
    LET first == CHOOSE i \in 1..Len(log) : log[i].call = "create_command_encoder"
        last == CHOOSE i \in 1..Len(log) : log[i].call = "finish"
    IN [k \in 1..(last - first - 1) |-> LoggedCall(c, log[first + k])]

\* C11: the command sequence a run replays is the concatenation, over the
\* nodes in the compiled execution order, of each node's recorded commands in
\* the order the node called them.
C11_ReplayInExecutionOrder ==
    outcome.status = "Ok"
        => ReplayedCalls(comp, gpu) = ExpectedReplay(graph, result.order, 1)

\* a run of two recording nodes that execute in the reverse of the order
\* they were added in
C11_Witness ==
    /\ outcome.status = "Ok"
    /\ Len(result.order) = 2
    /\ result.order[1] = 2
    /\ \A k \in 1..2 : ExpectedFnCalls(NodeFns[graph.slotmap[k].run_fn], 1) # <<>>
    /\ graph.slotmap[1].run_fn # graph.slotmap[2].run_fn

\* ------------------------------------------------------------------------
\* The inner command list of a compute pass against the calls made on it
\* ------------------------------------------------------------------------
\* what an entry of the inner command list is, without its payload
EntryTag(e) ==
    IF e.kind = "SetPipeline" THEN <<"pipeline", e.handle>>
    ELSE IF e.kind = "BindGroup" THEN <<"bind_group", e.index>>
    ELSE <<"dispatch", 0>>

EntryTags(commands) == [i \in 1..Len(commands) |-> EntryTag(commands[i])]

CallTags(calls) == [i \in 1..Len(calls) |-> <<calls[i].call, calls[i].arg>>]

\* s can be obtained from t by dropping elements of t
RECURSIVE IsSubsequence(_, _)
IsSubsequence(s, t) ==
    IF s = <<>> THEN TRUE
    ELSE IF t = <<>> THEN FALSE
    ELSE IF Head(s) = Head(t) THEN IsSubsequence(Tail(s), Tail(t))
    ELSE IsSubsequence(s, Tail(t))

\* the entries a dispatch appends for a pipeline whose layout has n groups
GroupTags(n) == [g \in 1..n |-> <<"bind_group", g - 1>>]

\* the entries the calls leave: pipeline appends its SetPipeline, bind_group
\* appends nothing, dispatch appends one BindGroup per group of the layout of
\* the pipeline set last, in ascending index, and then its Dispatch
RECURSIVE EntriesOfCalls(_, _, _)
EntriesOfCalls(calls, i, pipeline) ==
    IF i > Len(calls) THEN <<>>
    ELSE IF calls[i].call = "pipeline"
    THEN << <<"pipeline", calls[i].arg>> >> \o EntriesOfCalls(calls, i + 1, calls[i].arg)
    ELSE IF calls[i].call = "bind_group"
    THEN EntriesOfCalls(calls, i + 1, pipeline)
    ELSE GroupTags(Len(PipelineStorage.pipeline_layouts[
                        PipelineStorage.compute_pipelines[pipeline].layout].groups))
            \o << <<"dispatch", 0>> >> \o EntriesOfCalls(calls, i + 1, pipeline)

\* C12 as stated: the SetPipeline, BindGroup and Dispatch entries of the inner
\* command list of a pass are in the relative order of the pipeline(),
\* bind_group() and dispatch() calls that produced them, so the entries can
\* be matched to the calls without crossing
C12_EntriesInCallOrder ==
    Ok(cmds) => IsSubsequence(EntryTags(PassCommands), CallTags(hist))

\* C12 amended: SetPipeline and Dispatch entries are in the order of the
\* pipeline() and dispatch() calls; bind_group() appends no entry, and every
\* dispatch() appends, just before its Dispatch entry, one BindGroup entry
\* per group of the current pipeline's layout, in ascending group index
C12_EntriesFollowDispatch ==
    Ok(cmds) => EntryTags(PassCommands) = EntriesOfCalls(hist, 1, None)

\* bind_group before pipeline, then two dispatches, all accepted
C12_Witness ==
    /\ Ok(cmds)
    /\ Len(hist) = 4
    /\ hist[1].call = "bind_group"
    /\ hist[2].call = "pipeline"
    /\ hist[3].call = "dispatch"
    /\ hist[4].call = "dispatch"
    /\ Len(PassCommands) = 5

\* ------------------------------------------------------------------------
\* A compilation rebuilt from its artifacts
\* ------------------------------------------------------------------------
SameCompilation(c, d) ==
    /\ c.queue = d.queue
    /\ c.bind_cache = d.bind_cache
    /\ c.constraints = d.constraints
    /\ c.virtual_buffers = d.virtual_buffers
    /\ c.virtual_textures = d.virtual_textures

\* C13: the compilation rebuilt by from_artifacts from the artifacts of a
\* compilation c has the command queue, bind-group cache, constraint table
\* and virtual buffer and texture maps of c, and running it gives the result
\* and issues the calls that running c on the same resources gives
C13_ArtifactsRoundTrip ==
    /\ (Len(hist) >= 1 /\ comp.valid) => SameCompilation(comp, hist[1].original)
    /\ Len(hist) = 2 =>
          \E r \in {RenderGraphCompilation_run(hist[1].original, hist[2])} :
              /\ outcome.status = r.status
              /\ outcome.error = r.error
              /\ outcome.bound_buffers = r.bound_buffers
              /\ gpu = r.gpu

\* a rebuilt compilation with commands and cached bind groups has run
C13_Witness ==
    /\ Len(hist) = 2
    /\ outcome.status = "Ok"
    /\ comp.queue # <<>>
    /\ comp.bind_cache.groups # <<>>

\* ------------------------------------------------------------------------
\* Two compilations of one graph
\* ------------------------------------------------------------------------
SecondCompile == hist[1]

MaxUsedGlobals == 4

Global(binding, space, access, inner, size) ==
    [binding |-> binding, space |-> space, access |-> access, inner |-> inner, size |-> size]

Sampler(comparison) ==
    [tag |-> "Sampler", comparison |-> comparison, dim |-> "None", arrayed |-> FALSE,
     class |-> "None", kind |-> "None", multi |-> FALSE, format |-> "None", access |-> {}]

Image(dim, arrayed, class, kind, multi, format, access) ==
    [tag |-> "Image", comparison |-> FALSE, dim |-> dim, arrayed |-> arrayed,
     class |-> class, kind |-> kind, multi |-> multi, format |-> format, access |-> access]

Struct ==
    [tag |-> "Struct", comparison |-> FALSE, dim |-> "None", arrayed |-> FALSE,
     class |-> "None", kind |-> "None", multi |-> FALSE, format |-> "None", access |-> {}]

GlobalVariables ==
    << Global(<<0, 0>>, "Handle", {}, Sampler(FALSE), 0),
       Global(<<0, 1>>, "Handle", {}, Sampler(TRUE), 0),
       Global(<<1, 0>>, "Handle", {}, Sampler(FALSE), 0),
       Global(<<0, 2>>, "Handle", {}, Image("D2", FALSE, "Sampled", "Float", FALSE, "None", {}), 0),
       Global(<<2, 0>>, "Handle", {}, Image("D2", TRUE, "Depth", "None", FALSE, "None", {}), 0),
       Global(<<3, 1>>, "Storage", {"LOAD", "STORE"}, Struct, 16),
       Global(<<>>, "WorkGroup", {}, Struct, 4),
       Global(<<8, 0>>, "Storage", {"STORE"}, Struct, 4),
       Global(<<1, 1>>, "Uniform", {}, Struct, 8),
       Global(<<2, 3>>, "Handle", {},
              Image("D3", FALSE, "Storage", "None", FALSE, "Rgba8Unorm", {"STORE"}), 0) >>

\* wgpu::BindingType::Sampler(kind)
SamplerBindingType(kind) == [ty |-> "Sampler", sampler |-> kind]

BindGroupLayoutEntry(binding, ty) ==
    [binding |-> binding, visibility |-> "COMPUTE", ty |-> ty, count |-> None]

\* every naga StorageFormat maps to the TextureFormat of the same name
match_format(format) == format

match_image(dim, arrayed, image, filtered) ==
    LET view_dim ==
            IF dim = "D1" /\ ~arrayed THEN "D1"
            ELSE IF dim = "D2" /\ ~arrayed THEN "D2"
            ELSE IF dim = "D2" /\ arrayed THEN "D2Array"
            ELSE IF dim = "D3" /\ ~arrayed THEN "D3"
            ELSE IF dim = "Cube" /\ ~arrayed THEN "Cube"
            ELSE IF dim = "Cube" /\ arrayed THEN "CubeArray"
            ELSE "unreachable"
    IN IF image.class = "Sampled"
       THEN TextureEntry(
                IF image.kind = "Sint" THEN "Sint"
                ELSE IF image.kind = "Uint" THEN "Uint"
                ELSE IF filtered THEN "Float(true)" ELSE "Float(false)",
                view_dim, image.multi)
       ELSE IF image.class = "Depth"
       THEN TextureEntry("Depth", view_dim, image.multi)
       ELSE StorageTextureEntry(
                IF image.access = {"STORE"} THEN "WriteOnly"
                ELSE IF image.access = {"LOAD"} THEN "ReadOnly"
                ELSE "ReadWrite",
                match_format(image.format), view_dim)

\* a filtered set that holds every image of a sampling pair
FilteredImages_every_pair(module, nonfiltering_samplers) ==
    { key[1] : key \in module.sampling_set }

\* filtered: the images of the sampling pairs whose sampler is not in the
\* non-filtering set
FilteredImages(module, nonfiltering_samplers) ==
    { key[1] : key \in { k \in module.sampling_set :
                            GlobalVariables[k[2]].binding \notin nonfiltering_samplers } }

\* the binding type of one resource
ReflectBindingType(handle, resource, filtered, nonfiltering_samplers) ==
    IF resource.space = "Uniform"
    THEN BufferEntry("Uniform", FALSE, resource.size)
    ELSE IF resource.space = "Storage"
    THEN BufferEntry("Storage", "LOAD" \notin resource.access, resource.size)
    ELSE IF resource.inner.tag = "Image"
    THEN match_image(resource.inner.dim, resource.inner.arrayed, resource.inner,
                     handle \in filtered)
    ELSE SamplerBindingType(
            IF resource.inner.comparison THEN "Comparison"
            ELSE IF resource.binding \in nonfiltering_samplers THEN "NonFiltering"
            ELSE "Filtering")

\* the loop over the resources: [error, group, groups]
RECURSIVE ReflectResources(_, _, _, _, _)
ReflectResources(resources, i, filtered, nonfiltering_samplers, groups) ==
    IF i > Len(resources) THEN [error |-> "None", group |-> 0, groups |-> groups]
    ELSE LET handle == resources[i]
             resource == GlobalVariables[handle]
             binding == resource.binding
         IN IF binding[1] >= MAX_BIND_GROUPS
            THEN [error |-> "BindGroupTooHigh", group |-> binding[1], groups |-> groups]
            ELSE IF resource.space \in {"Uniform", "Storage"} /\ resource.size = 0
            THEN [error |-> "panic", group |-> 0, groups |-> groups]
            ELSE ReflectResources(resources, i + 1, filtered, nonfiltering_samplers,
                    [groups EXCEPT ![binding[1]] =
                        Append(@, BindGroupLayoutEntry(binding[2],
                            ReflectBindingType(handle, resource, filtered,
                                               nonfiltering_samplers)))])

\* layouts that leave out the groups without an entry
GroupLayouts_compact(groups) ==
    LET kept == SortedSeq({g \in DOMAIN groups : groups[g] # <<>>})
    IN [i \in 1..Len(kept) |-> groups[kept[i]]]

\* the groups up to the last one that holds an entry
GroupLayouts(groups) ==
    LET active == {g \in DOMAIN groups : groups[g] # <<>>}
        count == IF active = {} THEN 0 ELSE MaxOf(active) + 1
    IN [i \in 1..count |-> groups[i - 1]]

NoPipeline == [status |-> "none", group |-> 0, group_layouts |-> <<>>, layout |-> 0]

\* compute_pipeline_from_module(ctx, module, entry_point, nonfiltering_samplers, label)
compute_pipeline_from_module(module, entry_point, nonfiltering_samplers) ==
    LET points == {i \in 1..Len(module.entry_points) :
                        module.entry_points[i].name = entry_point}
    IN IF points = {}
       THEN [NoPipeline EXCEPT !.status = "MissingEntryPoint"]
       ELSE IF module.entry_points[CHOOSE i \in points : \A j \in points : i <= j].stage
                    # "Compute"
       THEN [NoPipeline EXCEPT !.status = "NotComputeShader"]
       ELSE LET resources == SelectSeq(module.used,
                                LAMBDA h : GlobalVariables[h].binding # <<>>)
                Result(r) ==
                    IF r.error # "None"
                    THEN [NoPipeline EXCEPT !.status = r.error, !.group = r.group]
                    ELSE [status |-> "Ok", group |-> 0,
                          group_layouts |-> GroupLayouts(r.groups),
                          layout |-> Len(GroupLayouts(r.groups))]
            IN Result(ReflectResources(resources, 1,
                        FilteredImages(module, nonfiltering_samplers),
                        nonfiltering_samplers,
                        [g \in 0..(MAX_BIND_GROUPS - 1) |-> <<>>]))

\* ------------------------------------------------------------------------
\* Reflection as a state machine: a module and a non-filtering set are
\* given, and the pipeline is reflected once.  hist[1] holds the module and
\* the non-filtering set, result the reflected pipeline.
\* ------------------------------------------------------------------------
SamplerBindings == {<<0, 0>>, <<0, 1>>, <<1, 0>>}

SamplingPairs == {<<4, 1>>, <<4, 3>>, <<5, 2>>}

EntryPoints ==
    { << [name |-> "main", stage |-> "Compute"] >>,
      << [name |-> "main", stage |-> "Fragment"] >>,
      << [name |-> "other", stage |-> "Compute"] >> }

\* the modules: at most MaxUsedGlobals used globals, yielded in ascending or
\* in descending handle order, and sampling pairs among the used globals
Modules ==
    { [entry_points |-> e, used |-> u, sampling_set |-> s] :
        e \in EntryPoints,
        u \in UNION { {SortedSeq(U), Reverse(SortedSeq(U))} :
                        U \in {V \in SUBSET (1..Len(GlobalVariables)) :
                                    Cardinality(V) <= MaxUsedGlobals} },
        s \in SUBSET SamplingPairs }

InitReflect ==
    /\ graph = RenderGraph_new
    /\ result = NoPipeline
    /\ comp = NoCompilation
    /\ cmds = RenderCommands_new(0)
    /\ pass = NoPass
    /\ \E module \in Modules, nonfiltering_samplers \in SUBSET SamplerBindings :
          /\ \A key \in module.sampling_set : {key[1], key[2]} \subseteq Range(module.used)
          /\ hist = << [module |-> module,
                        nonfiltering_samplers |-> nonfiltering_samplers] >>
    /\ outcome = NoOutcome
    /\ gpu = <<>>

Reflect ==
    /\ result.status = "none"
    /\ result' = compute_pipeline_from_module(hist[1].module, "main",
                                              hist[1].nonfiltering_samplers)
    /\ UNCHANGED <<graph, comp, cmds, pass, hist, outcome, gpu>>

NextReflect == Reflect

SpecReflect == InitReflect /\ [][NextReflect]_vars

\* ------------------------------------------------------------------------
\* What reflection produces
\* ------------------------------------------------------------------------
ReflectedModule == hist[1].module

NonFiltering == hist[1].nonfiltering_samplers

\* the globals of the entry point that have a binding
BoundGlobals == {h \in Range(ReflectedModule.used) : GlobalVariables[h].binding # <<>>}

UsedSamplers == {h \in BoundGlobals : GlobalVariables[h].inner.tag = "Sampler"}

SampledFloatImages ==
    {h \in BoundGlobals : /\ GlobalVariables[h].inner.tag = "Image"
                          /\ GlobalVariables[h].inner.class = "Sampled"
                          /\ GlobalVariables[h].inner.kind = "Float"}

\* the binding types of the entries produced for the global h
EntryTypes(h) ==
    LET binding == GlobalVariables[h].binding
    IN IF binding[1] + 1 > Len(result.group_layouts) THEN {}
       ELSE { e.ty : e \in { x \in Range(result.group_layouts[binding[1] + 1]) :
                                x.binding = binding[2] } }

SamplersOf(image) == {key[2] : key \in {k \in ReflectedModule.sampling_set : k[1] = image}}

\* C15 as stated: every used sampler whose binding is in the non-filtering
\* set gets the entry Sampler(NonFiltering), and every Sampled Float image
\* in a sampling pair with such a sampler gets a Texture entry with
\* filterable = false
C15_NonFilteringAsStated ==
    result.status = "Ok" =>
        \A s \in UsedSamplers :
            GlobalVariables[s].binding \in NonFiltering =>
                /\ EntryTypes(s) = {SamplerBindingType("NonFiltering")}
                /\ \A image \in SampledFloatImages :
                      s \in SamplersOf(image) =>
                          \A ty \in EntryTypes(image) : ty.sample_type = "Float(false)"

\* C15 amended: a used sampler gets Sampler(Comparison) when it is a
\* comparison sampler, else Sampler(NonFiltering) when its binding is in the
\* non-filtering set and Sampler(Filtering) when it is not; a Sampled Float
\* image gets filterable = false exactly when every sampler it is paired with
\* has its binding in the non-filtering set
C15_NonFilteringSamplers ==
    result.status = "Ok" =>
        /\ \A s \in UsedSamplers :
              EntryTypes(s) = {SamplerBindingType(
                    IF GlobalVariables[s].inner.comparison THEN "Comparison"
                    ELSE IF GlobalVariables[s].binding \in NonFiltering THEN "NonFiltering"
                    ELSE "Filtering")}
        /\ \A image \in SampledFloatImages :
              /\ EntryTypes(image) # {}
              /\ \A ty \in EntryTypes(image) :
                    (ty.sample_type = "Float(false)") <=>
                        \A s \in SamplersOf(image) :
                            GlobalVariables[s].binding \in NonFiltering

\* a Sampled Float image paired with one sampler, which is in the set, and a
\* second sampler outside the set
C15_Witness ==
    /\ result.status = "Ok"
    /\ ReflectedModule.sampling_set = {<<4, 1>>}
    /\ NonFiltering = {<<0, 0>>}
    /\ 3 \in UsedSamplers

\* C17: the reflected pipeline has (highest group of a bound global) + 1
\* bind-group layouts, none when no global is bound, and layout i holds
\* exactly the entries of the globals whose group is i, so a group without
\* globals below the highest gives an empty layout
C17_LayoutPerGroup ==
    result.status = "Ok" =>
        LET groups == {GlobalVariables[h].binding[1] : h \in BoundGlobals}
        IN /\ Len(result.group_layouts) = IF groups = {} THEN 0 ELSE MaxOf(groups) + 1
           /\ result.layout = Len(result.group_layouts)
           /\ \A i \in 1..Len(result.group_layouts) :
                 LET members == {h \in BoundGlobals : GlobalVariables[h].binding[1] = i - 1}
                 IN /\ Len(result.group_layouts[i]) = Cardinality(members)
                    /\ {e.binding : e \in Range(result.group_layouts[i])}
                            = {GlobalVariables[h].binding[2] : h \in members}

\* groups 0 and 3 hold entries, groups 1 and 2 are empty layouts
C17_Witness ==
    /\ result.status = "Ok"
    /\ Len(result.group_layouts) = 4
    /\ result.group_layouts[1] # <<>>
    /\ result.group_layouts[2] = <<>>
    /\ result.group_layouts[3] = <<>>

\* ------------------------------------------------------------------------
\* Retained textures at run
\* ------------------------------------------------------------------------
\* the virtual textures of the compilation that the caller backs at run
BackedTextures(c, res) == DOMAIN c.virtual_textures.names \cap DOMAIN res.textures

TextureConstraintsOf(c, name) ==
    c.constraints.textures[NamedSlotMap_get_key(c.virtual_textures, name)]

\* the requirements of the claim on a retained texture that are not met
UnmetRequirements(c, res, name) ==
    LET d == TextureConstraintsOf(c, name)
        tex == res.textures[name]
    IN    (IF tex.size # d.size THEN {"SizeMismatch"} ELSE {})
     \cup (IF tex.format # d.format THEN {"FormatMismatch"} ELSE {})
     \cup (IF ~(d.min_usages \subseteq tex.usage) THEN {"MissingUsages"} ELSE {})
     \cup (IF tex.mip_level_count < d.min_mip_level_count
           THEN {"InsufficientMipLevels"} ELSE {})
     \cup (IF tex.sample_count < d.min_sample_count THEN {"InsufficientSamples"} ELSE {})

\* the buffers of the run were bound, so run went on to the textures
BuffersBound(c, res) ==
    BindBuffers(c, res, NamedSlotMap_iter_names(c.virtual_buffers), 1, <<>>, EmptyMap).status
        = "Ok"

\* C16: a retained texture supplied under the name of a virtual texture is
\* accepted by run if and only if its size and format equal the declared
\* ones, its usages contain min_usages and its mip level and sample counts
\* reach the minima; otherwise run returns the TextureError of a requirement
\* that is not met, naming the texture
C16_RetainedTextureChecked ==
    (outcome.status # "none" /\ BuffersBound(comp, RunResources)) =>
        \A name \in BackedTextures(comp, RunResources) :
            /\ (outcome.status = "Ok") <=> (UnmetRequirements(comp, RunResources, name) = {})
            /\ UnmetRequirements(comp, RunResources, name) # {} =>
                  /\ outcome.status = "Texture"
                  /\ outcome.error.kind \in UnmetRequirements(comp, RunResources, name)
                  /\ outcome.error.name = name

\* a retained texture that lacks a usage the commands need was rejected
C16_Witness ==
    /\ outcome.status = "Texture"
    /\ outcome.error.kind = "MissingUsages"
    /\ BackedTextures(comp, RunResources) = {1}

\* ------------------------------------------------------------------------
\* What a transfer leaves on the recording surface
\* ------------------------------------------------------------------------
LastCall == hist[1]

\* the access sets of the node at position i, as sets of resource indices
ReadsOf(rc, i) == Range(Bitset_iter(rc.resource_accesses[i].reads))

WritesOf(rc, i) == Range(Bitset_iter(rc.resource_accesses[i].writes))

ResourceIndex(rc, kind, handle) == VirtualMap(rc, kind).slotmap[handle]

\* C18: after write_texture, the resource index of the target texture is in
\* the writes access set of the node being recorded
C18_WriteTextureMarksWrite ==
    (hist # <<>> /\ LastCall.call = "write_texture") =>
        /\ Ok(cmds)
        /\ ResourceIndex(cmds, "Texture", LastCall.src) \in WritesOf(cmds, cmds.node_index + 1)

\* C19: copy_buffer_to_buffer appends one CopyBufferToBuffer command; the
\* source has min_size >= src_offset + size and COPY_SRC, the destination
\* min_size >= dst_offset + size and COPY_DST; the source is in the reads
\* and the destination in the writes of the current node; nothing else of
\* the constraints and of the access sets changes
C19_CopyBufferToBuffer ==
    (hist # <<>> /\ LastCall.call = "copy_buffer_to_buffer") =>
        LET b == LastCall.before
            node == b.node_index + 1
            s == ResourceIndex(b, "Buffer", LastCall.src)
            d == ResourceIndex(b, "Buffer", LastCall.dst)
        IN /\ Ok(cmds)
           /\ cmds.queue = Append(b.queue,
                    [kind |-> "CopyBufferToBuffer", src |-> LastCall.src,
                     src_offset |-> LastCall.src_offset, dst |-> LastCall.dst,
                     dst_offset |-> LastCall.dst_offset, size |-> LastCall.size])
           /\ LastCall.src \in DOMAIN cmds.constraints.buffers
           /\ cmds.constraints.buffers[LastCall.src].min_size
                    >= LastCall.src_offset + LastCall.size
           /\ "COPY_SRC" \in cmds.constraints.buffers[LastCall.src].min_usages
           /\ LastCall.dst \in DOMAIN cmds.constraints.buffers
           /\ cmds.constraints.buffers[LastCall.dst].min_size
                    >= LastCall.dst_offset + LastCall.size
           /\ "COPY_DST" \in cmds.constraints.buffers[LastCall.dst].min_usages
           /\ ReadsOf(cmds, node) = ReadsOf(b, node) \cup {s}
           /\ WritesOf(cmds, node) = WritesOf(b, node) \cup {d}
           /\ \A h \in DOMAIN cmds.constraints.buffers \ {LastCall.src, LastCall.dst} :
                 /\ h \in DOMAIN b.constraints.buffers
                 /\ cmds.constraints.buffers[h] = b.constraints.buffers[h]
           /\ DOMAIN b.constraints.buffers \subseteq DOMAIN cmds.constraints.buffers
           /\ cmds.constraints.textures = b.constraints.textures
           /\ \A i \in DOMAIN cmds.resource_accesses \ {node} :
                 /\ ReadsOf(cmds, i) = ReadsOf(b, i)
                 /\ WritesOf(cmds, i) = WritesOf(b, i)

\* the second node copies between two buffers that earlier commands used
C19_Witness ==
    /\ hist # <<>>
    /\ LastCall.call = "copy_buffer_to_buffer"
    /\ LastCall.src # LastCall.dst
    /\ LastCall.before.node_index = 1
    /\ LastCall.before.queue # <<>>
    /\ WritesOf(LastCall.before, 1) # {}

\* ------------------------------------------------------------------------
\* The ambiguity list against the recorded access sets
\* ------------------------------------------------------------------------
\* the surface after the recording pass of the compile that gave result
RecordedSurface ==
    RunNodes(RenderCommands_new(Len(graph.slotmap)), graph, result.order, 1)

\* the nodes named a and b conflict on the recorded access sets
Conflicting(rc, a, b) ==
    LET i == Position(result.order, NamedSlotMap_get_key(graph, a))
        j == Position(result.order, NamedSlotMap_get_key(graph, b))
    IN \/ ReadsOf(rc, i) \cap WritesOf(rc, j) # {}
       \/ ReadsOf(rc, j) \cap WritesOf(rc, i) # {}
       \/ WritesOf(rc, i) \cap WritesOf(rc, j) # {}

\* the ordered pairs of distinct nodes that are unordered and conflicting
AmbiguousPairs(rc) ==
    { p \in GraphNames(graph) \X GraphNames(graph) :
        /\ p[1] # p[2]
        /\ Unordered(graph, p[1], p[2])
        /\ Conflicting(rc, p[1], p[2]) }

\* C20: a compile that reaches the ambiguity phase returns
\* WriteOrderAmbiguity if and only if some pair of nodes is unordered and
\* conflicting on the recorded access sets, and the list it reports holds
\* exactly those ordered pairs, each once: no node with itself, no two nodes
\* that are transitively ordered
C20_AmbiguityListExact ==
    (result.status \in {"Ok", "Texture", "WriteOrderAmbiguity"}) =>
        \E pairs \in {AmbiguousPairs(RecordedSurface)} :
            /\ (result.status = "WriteOrderAmbiguity") <=> (pairs # {})
            /\ Range(result.ambiguities) = pairs
            /\ Len(result.ambiguities) = Cardinality(pairs)

\* three nodes, two of them ordered and conflicting, the third unordered and
\* conflicting with another: only the unordered pairs are reported
C20_Witness ==
    /\ result.status = "WriteOrderAmbiguity"
    /\ Len(result.order) = 3
    /\ \E a \in GraphNames(graph), b \in GraphNames(graph) :
          /\ a # b
          /\ ~Unordered(graph, a, b)
          /\ Conflicting(RecordedSurface, a, b)
          /\ <<a, b>> \notin Range(result.ambiguities)
    /\ Len(result.ambiguities) >= 2

\* ------------------------------------------------------------------------
\* The compatibility ladder of sample types
\* ------------------------------------------------------------------------
\* the sample-type constraint of texture 1
SampleTypeNow ==
    RenderCommands_get_texture_constraints(
        cmds, NamedSlotMap_get_key(cmds.virtual_textures, 1)).sample_type

\* the constraint the i-th call left
SampleTypeAfter(i) == IF i < Len(hist) THEN hist[i + 1].before ELSE SampleTypeNow

IsFloat(ty) == ty \in {"Float(true)", "Float(false)"}

\* the ladder as the specification words it
Ladder(current, new) ==
    IF current.tag = "Unconstrained" THEN Constrained(new)
    ELSE IF current.tag = "Conflicted" THEN current
    ELSE IF current.a = "Float(false)" /\ new \in {"Float(true)", "Depth"}
    THEN Constrained(new)
    ELSE IF \/ new = current.a
            \/ (current.a = "Float(true)" /\ IsFloat(new))
            \/ (current.a = "Depth" /\ new = "Float(false)")
    THEN current
    ELSE Conflicted(current.a, new)

\* C21: every set_sample_type moves the constraint along the ladder:
\* Unconstrained to Constrained(new), Float(false) up to Float(true) or Depth,
\* unchanged on a compatible type, Conflicted(current, new) on every other
\* pair, and a Conflicted constraint stays as it is
C21_SampleTypeLadder ==
    \A i \in 1..Len(hist) : SampleTypeAfter(i) = Ladder(hist[i].before, hist[i].ty)

\* a texture sampled as Float(false), then as Sint, then once more
C21_Witness ==
    /\ Len(hist) = 3
    /\ hist[2].before = Constrained("Float(false)")
    /\ hist[3].before = Conflicted("Float(false)", "Sint")
    /\ hist[3].ty = "Float(false)"

\* ------------------------------------------------------------------------
\* Accumulation of constraints over the calls of a node function
\* ------------------------------------------------------------------------
\* the surface the i-th recorded call left
SurfaceAfter(i) == IF i < Len(hist) THEN hist[i + 1].before ELSE cmds

BufferMonotone(c, d) ==
    /\ c.min_size <= d.min_size
    /\ c.min_usages \subseteq d.min_usages

TextureMonotone(c, d) ==
    /\ \A axis \in 1..3 : c.min_size[axis] <= d.min_size[axis]
    /\ c.min_mip_level_count <= d.min_mip_level_count
    /\ c.min_sample_count <= d.min_sample_count
    /\ c.min_usages \subseteq d.min_usages
    /\ c.has_depth => d.has_depth
    /\ c.has_stencil => d.has_stencil
    /\ c.multisampled => d.multisampled
    /\ c.size # NoSize => d.size = c.size
    /\ c.format # "None" => d.format = c.format

ConstraintsMonotone(before, after) ==
    /\ \A h \in DOMAIN before.constraints.buffers :
          /\ h \in DOMAIN after.constraints.buffers
          /\ BufferMonotone(before.constraints.buffers[h], after.constraints.buffers[h])
    /\ \A h \in DOMAIN before.constraints.textures :
          /\ h \in DOMAIN after.constraints.textures
          /\ TextureMonotone(before.constraints.textures[h], after.constraints.textures[h])

\* C22: over any sequence of recording calls no constraint is weakened: a
\* buffer's min_size and min_usages, a texture's min_size per axis, mip
\* level count, sample count, usages and its has_depth, has_stencil and
\* multisampled flags only grow, and a declared size or format stays
C22_ConstraintsMonotone ==
    \A i \in 1..Len(hist) : ConstraintsMonotone(hist[i].before, SurfaceAfter(i))

\* a write of two bytes to a buffer, then a write of one byte, then a write
\* to a texture
C22_Witness ==
    /\ Len(hist) = 3
    /\ RecordingCalls[hist[1].call].op = "write_buffer"
    /\ RecordingCalls[hist[2].call].op = "write_buffer"
    /\ RecordingCalls[hist[2].call].len < RecordingCalls[hist[1].call].len
    /\ RecordingCalls[hist[3].call].op = "write_texture"
    /\ Ok(cmds)

\* ------------------------------------------------------------------------
\* Size and format as equality constraints
\* ------------------------------------------------------------------------
\* the constraints of the texture 1 on a surface (the default ones when the
\* table has no entry)
TextureOne(rc) ==
    LET texture == NamedSlotMap_get_key(rc.virtual_textures, 1)
    IN IF texture = None THEN TextureConstraints_default
       ELSE RenderCommands_get_texture_constraints(rc, texture)

\* the layout entry the single binding of a dispatch call meets
EntryOfCall(c) ==
    PipelineStorage.bind_group_layouts[
        PipelineStorage.pipeline_layouts[
            PipelineStorage.compute_pipelines[c.pipeline].layout].groups[1]]
        .entries[c.bind_group[1][1] + 1]

\* the format a call declares for the texture 1, "None" when it declares none
FormatOfCall(c) ==
    IF c.op = "has_format" THEN c.format
    ELSE IF c.op = "dispatch" /\ c.bind_group[1][2].kind = "Texture"
            /\ EntryOfCall(c).ty = "StorageTexture"
    THEN EntryOfCall(c).format
    ELSE "None"

SizeOfCall(c) == IF c.op = "has_size" THEN c.size ELSE NoSize

\* C23: has_size on a texture constrained to another size, and has_format
\* or a storage-texture binding on a texture constrained to another format,
\* fail; has_size and has_format with the value already declared succeed
\* and leave the constraints as they were
C23_SizeFormatEquality ==
    \A i \in 1..Len(hist) :
        LET c == RecordingCalls[hist[i].call]
            before == TextureOne(hist[i].before)
            after == SurfaceAfter(i)
        IN /\ (SizeOfCall(c) # NoSize /\ before.size # NoSize /\ before.size # SizeOfCall(c))
                => ~Ok(after)
           /\ (FormatOfCall(c) # "None" /\ before.format # "None"
                    /\ before.format # FormatOfCall(c))
                => ~Ok(after)
           /\ (c.op = "has_size" /\ before.size = c.size)
                => (Ok(after) /\ after.constraints = hist[i].before.constraints)
           /\ (c.op = "has_format" /\ before.format = c.format)
                => (Ok(after) /\ after.constraints = hist[i].before.constraints)

\* a format declared twice and then a storage-texture binding of another
\* format, which fails
C23_Witness ==
    /\ Len(hist) = 3
    /\ RecordingCalls[hist[1].call].op = "has_format"
    /\ hist[2].call = hist[1].call
    /\ RecordingCalls[hist[3].call].op = "dispatch"
    /\ FormatOfCall(RecordingCalls[hist[3].call]) \notin
            {"None", RecordingCalls[hist[1].call].format}
    /\ ~Ok(cmds)

\* ------------------------------------------------------------------------
\* The key of the bind-group cache
\* ------------------------------------------------------------------------
\* the cache handles that dispatches have resolved to
ResolvedHandles == DOMAIN cmds.bind_cache.groups

\* the set of (slot, binding) pairs of a binding list
PairsOf(list) == {list[i] : i \in 1..Len(list)}

\* C24: binding lists of the same layout that hold the same set of (slot,
\* binding) pairs, in whatever order, resolve at dispatch to one cache handle
C24_SortedCacheKey ==
    \A h1, h2 \in ResolvedHandles :
        (/\ cmds.bind_cache.groups[h1].layout = cmds.bind_cache.groups[h2].layout
         /\ PairsOf(cmds.bind_cache.groups[h1].bindings)
                = PairsOf(cmds.bind_cache.groups[h2].bindings))
            => h1 = h2

\* ------------------------------------------------------------------------
\* Bindings at slots the layout has no entry for
\* ------------------------------------------------------------------------
\* the surface the i-th logged call of the pass left
PassSurfaceAfter(i) == IF i < Len(hist) THEN hist[i + 1].before ELSE cmds

\* the layout of group 0 of the pipeline selected on pass ps
GroupZeroLayout(ps) ==
    PipelineStorage.bind_group_layouts[
        PipelineStorage.pipeline_layouts[
            PipelineStorage.compute_pipelines[ps.pipeline].layout].groups[1]]

\* the slot has an entry in the layout
HasEntry(group_layout, slot) == slot < Len(group_layout.entries)

\* C25: a dispatch whose bound pairs all sit at slots without a layout entry
\* does not fail and changes no resource constraint and no access set
C25_UnknownSlotIgnored ==
    \A i \in 1..Len(hist) :
        (/\ hist[i].call = "dispatch"
         /\ hist[i].ps.bindings[0].some
         /\ \A p \in PairsOf(hist[i].ps.bindings[0].list) :
                ~HasEntry(GroupZeroLayout(hist[i].ps), p[1]))
            => /\ Ok(PassSurfaceAfter(i))
               /\ PassSurfaceAfter(i).constraints = hist[i].before.constraints
               /\ PassSurfaceAfter(i).resource_accesses = hist[i].before.resource_accesses

\* ------------------------------------------------------------------------
\* What dispatch demands of the pass
\* ------------------------------------------------------------------------
\* the number of Dispatch commands in the inner list of the pass
DispatchCount(rc) ==
    Cardinality({k \in 1..Len(rc.queue[pass.command_index].commands) :
                    rc.queue[pass.command_index].commands[k].kind = "Dispatch"})

\* the number of groups in the layout of the pipeline selected on pass ps
GroupCount(ps) ==
    Len(PipelineStorage.pipeline_layouts[
            PipelineStorage.compute_pipelines[ps.pipeline].layout].groups)

\* the pass without the lists bound at group indices from n on
WithoutGroupsFrom(ps, n) ==
    [ps EXCEPT !.bindings = [g \in DOMAIN ps.bindings |->
                                IF g >= n THEN NoBindings ELSE ps.bindings[g]]]

\* C26: a dispatch with no pipeline selected, or with a group below the
\* layout's group count never bound, fails and appends no Dispatch command;
\* lists bound at group indices from the group count on change nothing
C26_DispatchDemands ==
    \A i \in 1..Len(hist) :
        hist[i].call = "dispatch" =>
            LET ps == hist[i].ps
                before == hist[i].before
                after == PassSurfaceAfter(i)
            IN IF ps.pipeline = None
               THEN ~Ok(after) /\ DispatchCount(after) = DispatchCount(before)
               ELSE /\ (\E g \in 0..(GroupCount(ps) - 1) : ~ps.bindings[g].some)
                        => (~Ok(after) /\ DispatchCount(after) = DispatchCount(before))
                    /\ after = ComputePassCommands_dispatch(
                                    before, WithoutGroupsFrom(ps, GroupCount(ps)), 1, 1, 1).rc

\* the pipeline of two groups with only group 0 bound: the dispatch fails
C26_Witness ==
    /\ Len(hist) = 3
    /\ hist[3].call = "dispatch"
    /\ hist[3].ps.pipeline = 3
    /\ hist[3].ps.bindings[0].some
    /\ ~hist[3].ps.bindings[1].some
    /\ ~Ok(cmds)
    /\ DispatchCount(cmds) = 0

\* ------------------------------------------------------------------------
\* What the validation of a buffer binding records
\* ------------------------------------------------------------------------
\* the pairs of the list bound to group 0 that bind a buffer
BufferPairs(ps) == {p \in PairsOf(ps.bindings[0].list) : p[2].kind = "Buffer"}

EntryAt(ps, slot) == GroupZeroLayout(ps).entries[slot + 1]

\* the bytes a buffer binding asks for under a layout entry
BoundBytes(resource, entry) ==
    IF resource.size # None THEN resource.offset + resource.size
    ELSE IF entry.min_binding_size # None THEN resource.offset + entry.min_binding_size
    ELSE 0

WritableEntry(entry) == entry.buffer_ty = "Storage" /\ ~entry.read_only

\* C27: a dispatch that validates a buffer binding marks the buffer read in
\* the current node, and written exactly when the entry is a Storage entry
\* that is not read-only; it adds UNIFORM for a Uniform entry and STORAGE for
\* a Storage entry, and raises min_size to offset + size, or to offset +
\* min_binding_size when the binding has no size
C27_BufferBindingRecorded ==
    \A i \in 1..Len(hist) :
        (hist[i].call = "dispatch" /\ Ok(PassSurfaceAfter(i))) =>
            LET ps == hist[i].ps
                before == hist[i].before
                after == PassSurfaceAfter(i)
                node == after.node_index + 1
            IN /\ \A p \in BufferPairs(ps) :
                    LET entry == EntryAt(ps, p[1])
                        c == RenderCommands_get_buffer_constraints(after, p[2].handle)
                    IN /\ ResourceIndex(after, "Buffer", p[2].handle) \in ReadsOf(after, node)
                       /\ WritableEntry(entry) =>
                            ResourceIndex(after, "Buffer", p[2].handle)
                                \in WritesOf(after, node)
                       /\ entry.buffer_ty = "Uniform" => "UNIFORM" \in c.min_usages
                       /\ entry.buffer_ty = "Storage" => "STORAGE" \in c.min_usages
                       /\ c.min_size >= BoundBytes(p[2], entry)
               /\ WritesOf(after, node) \ WritesOf(before, node) \subseteq
                    {ResourceIndex(after, "Buffer", p[2].handle) :
                        p \in {q \in BufferPairs(ps) : WritableEntry(EntryAt(ps, q[1]))}}

\* a read-write storage binding at offset 1 under an entry whose minimum
\* binding size is 2: the buffer is written and must hold three bytes
C27_Witness ==
    /\ Len(hist) >= 2
    /\ hist[Len(hist)].call = "dispatch"
    /\ Ok(cmds)
    /\ \E p \in BufferPairs(hist[Len(hist)].ps) :
          /\ WritableEntry(EntryAt(hist[Len(hist)].ps, p[1]))
          /\ p[2].offset = 1
          /\ p[2].size = None
    /\ RenderCommands_get_buffer_constraints(cmds, 1).min_size = 3
    /\ WritesOf(cmds, 1) # {}

\* ------------------------------------------------------------------------
\* Compile-time verification and retained textures
\* ------------------------------------------------------------------------
\* the names under which the caller supplies a retained texture at run
SuppliedTextureNames == UNION {DOMAIN res.textures : res \in RenderResources}

\* C28: compile does not reject a graph with UnconstrainedTextureSize or
\* UnconstrainedTextureFormat for a texture that the caller supplies as a
\* retained resource at run
C28_RetainedTextureNotVerified ==
    (result.status = "Texture"
        /\ result.error.kind \in {"UnconstrainedTextureSize", "UnconstrainedTextureFormat"})
        => result.error.name \notin SuppliedTextureNames

\* ------------------------------------------------------------------------
\* Constraints of every virtual resource
\* ------------------------------------------------------------------------
\* the handles of a virtual-resource map
HandlesOf(m) == 1..NamedSlotMap_len(m)

\* C29: after the recording pass every handle of the virtual buffer map and
\* of the virtual texture map has an entry in the constraint table
C29_EveryVirtualResourceConstrained ==
    comp.valid =>
        /\ HandlesOf(comp.virtual_buffers) \subseteq DOMAIN comp.constraints.buffers
        /\ HandlesOf(comp.virtual_textures) \subseteq DOMAIN comp.constraints.textures

\* ------------------------------------------------------------------------
\* References to nodes that were never added
\* ------------------------------------------------------------------------
\* C30: when a before or after set of some node names a node that is not in
\* the graph, compile returns MissingNode
C30_MissingNodeReported ==
    (result.status # "none" /\ ~NamesPresent(graph)) => result.status = "MissingNode"

\* ------------------------------------------------------------------------
\* Multisampled transient textures
\* ------------------------------------------------------------------------
\* the virtual textures of the compilation that run found no retained
\* texture for
TransientTextures ==
    {h \in HandlesOf(comp.virtual_textures) :
        NamedSlotMap_get_name(comp.virtual_textures, h) \notin DOMAIN RunResources.textures}

\* C31: a run that has to create a transient texture which is used
\* multisampled with a sample count below 2 returns TooFewSamples, and no
\* such texture is created
C31_TooFewSamplesRejected ==
    (outcome.status # "none"
        /\ \E h \in TransientTextures :
              /\ h \in DOMAIN comp.constraints.textures
              /\ comp.constraints.textures[h].multisampled
              /\ comp.constraints.textures[h].min_sample_count < 2)
        => /\ outcome.status = "Texture"
           /\ outcome.error.kind = "TooFewSamples"
           /\ \A k \in 1..Len(gpu) : gpu[k].call # "create_texture"

\* ------------------------------------------------------------------------
\* Recycled artifacts
\* ------------------------------------------------------------------------
\* C32: a compile over the artifacts of an earlier compilation returns what
\* the compile without artifacts returns for the same graph: the same
\* result, command queue, bind-group cache, constraint table and virtual
\* resources, with nothing of the earlier compilation in them
C32_RecyclingCarriesNothing ==
    hist # <<>> => (result = hist[1].fresh.result /\ comp = hist[1].fresh.comp)

\* artifacts with commands, cache entries and constraints of their own,
\* handed to the compile of a graph that records other commands
C32_Witness ==
    /\ hist # <<>>
    /\ hist[1].artifacts.queue # <<>>
    /\ hist[1].artifacts.bind_cache.groups # <<>>
    /\ DOMAIN hist[1].artifacts.constraints.buffers # {}
    /\ comp.valid
    /\ comp.queue # <<>>
    /\ comp.queue # hist[1].artifacts.queue
    /\ DOMAIN comp.constraints.buffers = {}

\* ------------------------------------------------------------------------
\* Union of bitsets
\* ------------------------------------------------------------------------
\* C33: x.union_with(y) completes for bitsets of any lengths, leaves x with
\* the length max(len x, len y) and with index i present exactly when x or y
\* held i before, and leaves y as it was
C33_UnionOfAnyLengths ==
    result.status # "none" =>
        /\ result.status = "done"
        /\ hist[1].len = Max(result.x.len, result.y.len)
        /\ \A i \in 0..(hist[1].len - 1) :
              (Bitset_contains(hist[1], i) = TRUE)
                  <=> (Bitset_contains(result.x, i) = TRUE
                        \/ Bitset_contains(result.y, i) = TRUE)
        /\ hist[2] = result.y

\* ------------------------------------------------------------------------
\* Words of a byte stream
\* ------------------------------------------------------------------------
\* byte i (from 0) of the input, 0 past its end
PaddedByte(input, i) == IF i < Len(input) THEN input[i + 1] ELSE 0

\* the little-endian words of the input padded with zeros to a multiple of 4
PaddedWords(input) ==
    [k \in 1..((Len(input) + 3) \div 4) |->
        u32_from_le_bytes(<<PaddedByte(input, 4 * (k - 1)),
                            PaddedByte(input, 4 * (k - 1) + 1),
                            PaddedByte(input, 4 * (k - 1) + 2),
                            PaddedByte(input, 4 * (k - 1) + 3)>>)]

\* C34: a stream of n bytes decodes to ceil(n/4) words, word k the
\* little-endian value of the bytes 4k..4k+3 with the missing trailing bytes
\* taken as 0
C34_ZeroPaddedWords == hist.done => hist.words = PaddedWords(hist.input)

\* ------------------------------------------------------------------------
\* Names and keys of the named slotmap
\* ------------------------------------------------------------------------
\* get_name(key) is Some: some (name, k) of the side-map has k = key
IsNamed(m, key) == \E name \in DOMAIN m.names : m.names[name] = key

\* C35: after any sequence of inserts every stored key has a name, every
\* name maps to a stored key, no two names map to one key, and there are as
\* many names as values
C35_NamesBijective ==
    /\ \A key \in 1..NamedSlotMap_len(graph) : IsNamed(graph, key)
    /\ \A name \in DOMAIN graph.names :
          NamedSlotMap_get_key(graph, name) \in 1..NamedSlotMap_len(graph)
    /\ \A n1 \in DOMAIN graph.names, n2 \in DOMAIN graph.names :
          graph.names[n1] = graph.names[n2] => n1 = n2
    /\ Cardinality(DOMAIN graph.names) = NamedSlotMap_len(graph)

\* ------------------------------------------------------------------------
\* The cycle a compile reports
\* ------------------------------------------------------------------------
\* C36: compile returns CycleDetected(x, y) only when the constraints hold a
\* cycle through x and y on which y directly depends on x (x is in y's after
\* set or y is in x's before set); a graph without ordering cycle never
\* yields CycleDetected
C36_CycleDetectedSound ==
    result.status = "CycleDetected" =>
        /\ HasOrderingCycle(graph)
        /\ <<result.cycle[1], result.cycle[2]>> \in OrderingConstraints(graph)
        /\ <<result.cycle[2], result.cycle[1]>> \in Ordered(graph)
        /\ <<result.cycle[1], result.cycle[1]>> \in Ordered(graph)
        /\ <<result.cycle[2], result.cycle[2]>> \in Ordered(graph)

\* a cycle of three nodes is reported
C36_Witness ==
    /\ result.status = "CycleDetected"
    /\ result.cycle[1] # result.cycle[2]
    /\ <<result.cycle[1], result.cycle[2]>> \in OrderingConstraints(graph)
    /\ <<result.cycle[2], result.cycle[1]>> \notin OrderingConstraints(graph)
    /\ <<result.cycle[2], result.cycle[1]>> \in Ordered(graph)

\* ------------------------------------------------------------------------
\* The execution order as a permutation of the nodes
\* ------------------------------------------------------------------------
\* the resource indices of the <<kind, name>> pairs of a set
IndicesOf(rc, resources) ==
    {ResourceIndex(rc, r[1], NamedSlotMap_get_key(VirtualMap(rc, r[1]), r[2])) :
        r \in resources}

\* the number of commands the calls of a node function put on the queue
RECURSIVE QueuedBy(_, _)
QueuedBy(fn, i) ==
    IF i > Len(fn) THEN 0
    ELSE (IF fn[i].op \in {"write_buffer", "write_texture", "copy_buffer_to_buffer",
                           "dispatch"} THEN 1 ELSE 0)
         + QueuedBy(fn, i + 1)

RECURSIVE QueuedByOrder(_, _, _)
QueuedByOrder(g, order, i) ==
    IF i > Len(order) THEN 0
    ELSE QueuedBy(NodeFns[g.slotmap[order[i]].run_fn], 1) + QueuedByOrder(g, order, i + 1)

\* C37: in a compile that reaches the recording pass the execution order holds
\* every node of the graph exactly once, every node's run_fn has run exactly
\* once with node_index at the node's position in the order, and the list of
\* access sets has one entry per node
C37_OrderIsPermutation ==
    (result.status \in {"Ok", "Texture", "WriteOrderAmbiguity"}) =>
        \E rc \in {RecordedSurface} :
            /\ Len(result.order) = Len(graph.slotmap)
            /\ Range(result.order) = 1..Len(graph.slotmap)
            /\ Len(rc.resource_accesses) = Len(graph.slotmap)
            /\ Len(rc.queue) = QueuedByOrder(graph, result.order, 1)
            /\ \A i \in 1..Len(result.order) :
                  /\ WritesOf(rc, i)
                        = IndicesOf(rc, FnWrites(NodeFns[graph.slotmap[result.order[i]].run_fn]))
                  /\ ReadsOf(rc, i)
                        = IndicesOf(rc, FnReads(NodeFns[graph.slotmap[result.order[i]].run_fn]))

\* three nodes with different access sets run in an order that is not the
\* order they were added in
C37_Witness ==
    /\ result.status \in {"Ok", "WriteOrderAmbiguity"}
    /\ Len(result.order) = 3
    /\ result.order # <<1, 2, 3>>
    /\ \A i \in 1..3, j \in 1..3 :
          i # j => graph.slotmap[i].run_fn # graph.slotmap[j].run_fn
    /\ \A i \in 1..3 : WritesOf(RecordedSurface, i) \cup ReadsOf(RecordedSurface, i) # {}

\* ------------------------------------------------------------------------
\* The sample types of a texture applied in another order
\* ------------------------------------------------------------------------
\* the orders in which n calls can be made
Orders(n) == {o \in SeqsNoDup(1..n, n) : Len(o) = n}

\* set_sample_type on a fresh constraint with the types of the calls made,
\* taken in the given order, from the i-th on
RECURSIVE Reapplied(_, _, _)
Reapplied(c, order, i) ==
    IF i > Len(order) THEN c
    ELSE Reapplied(TextureConstraints_set_sample_type(c, hist[order[i]].ty), order, i + 1)

\* whether a constraint is Conflicted and, if not, what it is
Verdict(sample_type) ==
    IF sample_type.tag = "Conflicted" THEN <<"Conflicted", "None">>
    ELSE <<sample_type.tag, sample_type.a>>

\* C38: whether the sample types applied to a fresh texture leave it
\* Conflicted, and otherwise the type they leave it Constrained to, is the
\* same for every order in which they are applied
C38_SampleTypeOrderIndependent ==
    \A order \in Orders(Len(hist)) :
        Verdict(Reapplied(TextureConstraints_default, order, 1).sample_type)
            = Verdict(SampleTypeNow)

\* Float(false), Depth and Float(true) applied in an order that upgrades
\* first and conflicts last, while another order conflicts at once
C38_Witness ==
    /\ Len(hist) = 3
    /\ hist[1].ty = "Float(false)"
    /\ hist[2].ty = "Depth"
    /\ hist[3].ty = "Float(true)"
    /\ hist[3].before = Constrained("Depth")
    /\ SampleTypeNow.tag = "Conflicted"
    /\ Reapplied(TextureConstraints_default, <<3, 2>>, 1).sample_type.tag = "Conflicted"

\* ------------------------------------------------------------------------
\* The mip levels a transient texture is created with
\* ------------------------------------------------------------------------
\* the number of mip levels a call makes use of on the texture 1
MipsUsedBy(c) ==
    IF c.op = "write_texture" THEN c.mip_level + 1
    ELSE IF c.op = "dispatch" /\ c.bind_group[1][2].kind = "Texture"
    THEN c.bind_group[1][2].base_mip
            + (IF c.bind_group[1][2].mip_count = None THEN 1
               ELSE c.bind_group[1][2].mip_count)
    ELSE 0

\* C39: after any sequence of write_texture calls and texture bindings,
\* min_mip_level_count is greater than every mip level written and at least
\* base_mip + 1 (base_mip + mip_count when a count is given) for every view
\* bound
C39_EveryUsedMipExists ==
    Ok(cmds) =>
        \A i \in 1..Len(hist) :
            TextureOne(cmds).min_mip_level_count >= MipsUsedBy(RecordingCalls[hist[i].call])

\* ------------------------------------------------------------------------
\* The virtual textures of a compilation
\* ------------------------------------------------------------------------
\* every virtual texture of the compilation has constraints with a declared
\* size and a declared format
EveryTextureDeclared(c) ==
    \A texture \in DOMAIN c.virtual_textures.slotmap :
        /\ texture \in DOMAIN c.constraints.textures
        /\ c.constraints.textures[texture].size # NoSize
        /\ c.constraints.textures[texture].format # "None"

\* C40: in the compilation a successful compile returns, and in the one
\* rebuilt from its artifacts, every virtual texture has a declared size and
\* a declared format, and run never returns UnconstrainedTextureSize or
\* UnconstrainedTextureFormat
C40_TexturesDeclared ==
    /\ comp.valid => EveryTextureDeclared(comp)
    /\ Len(hist) >= 1 => EveryTextureDeclared(hist[1].original)
    /\ outcome.error.kind \notin {"UnconstrainedTextureSize", "UnconstrainedTextureFormat"}

\* a rebuilt compilation has run and created its transient texture
C40_Witness ==
    /\ Len(hist) = 2
    /\ comp.valid
    /\ outcome.status = "Ok"
    /\ Len(comp.virtual_textures.slotmap) >= 1
    /\ \E i \in 1..Len(gpu) : gpu[i].call = "create_texture"

====
